---- MODULE Spec2Model ----
(***************************************************************************)
(* A model of the CUDA fusion compiler's index lowering pass               *)
(* (torch/csrc/jit/codegen/cuda/lower_index.cpp) and of the pointwise      *)
(* scheduler heuristic (scheduler/pointwise.cpp).                          *)
(*                                                                         *)
(* Lowered expressions live in an arena (exprs), as IrBuilder::create      *)
(* makes them; scopes and lists hold indices into it.  Symbolic extents    *)
(* are modelled by their concrete values, and an index expression over the *)
(* enclosing loops by its value under every assignment of loop indices.    *)
(***************************************************************************)
EXTENDS Integers, Sequences, FiniteSets, TLC

VARIABLES
    parDim,          \* GpuLower::current()->parallelDimensionMap(): 0 is nullptr
    rdesc,           \* the reduction expression of the kernel being lowered
    exprs,           \* arena of created kernel IR nodes
    lowered_exprs_,  \* IndexLowering::lowered_exprs_ (indices into exprs)
    active_scope_,   \* IndexLowering::active_scope_: <<node, body>>, <<0, "top">> is nullptr
    for_loops_,      \* IndexLowering::for_loops_ (indices into exprs)
    stack,           \* the frames of the recursive handle(ForLoop / IfThenElse) calls
    nsrc,            \* number of source expressions dispatched so far
    aborted,         \* a TORCH_INTERNAL_ASSERT has thrown
    last,            \* the source expression handled last, and the state it was handled in
    trace,           \* the values `last` has had: the source kernel in traversal order
    calc,            \* a call of the buffer-size helpers: its arguments and results
    pw               \* a call of getPointwiseHeuristics: its inputs and its result

vars == <<parDim, rdesc, exprs, lowered_exprs_, active_scope_, for_loops_, stack,
          nsrc, aborted, last, trace, calc, pw>>

\* The state of the lowering pass.
lowering == <<rdesc, exprs, lowered_exprs_, active_scope_, for_loops_, stack,
              nsrc, aborted, last, trace>>

\* ------------------------------------------------------------------ bounds

\* Source expressions (scopes included) given to one lowering run.
MaxExprs == 3

\* Extents of the for-loops of the source kernel.
LoopExtents == {2, 3}

MaxLoopExtent == CHOOSE x \in LoopExtents : \A y \in LoopExtents : y <= x

\* ------------------------------------------------------- parallel types

kParallelTypeBIDs == <<"BIDx", "BIDy", "BIDz">>

kParallelTypeTIDs == <<"TIDx", "TIDy", "TIDz">>

kParallelTypeThreads == kParallelTypeBIDs \o kParallelTypeTIDs

Range(s) == {s[i] : i \in DOMAIN s}

isParallelTypeThreadDim(pt) == pt \in Range(kParallelTypeTIDs)

isParallelTypeBlockDim(pt) == pt \in Range(kParallelTypeBIDs)

isParallelTypeThread(pt) == isParallelTypeBlockDim(pt) \/ isParallelTypeThreadDim(pt)

\* ---------------------------------------------------------- IterDomain

IterDomain(pt, ext, red, bc, triv) ==
    [ptype |-> pt, extent |-> ext, reduction |-> red, broadcast |-> bc, trivial |-> triv]

isThread(id) == isParallelTypeThread(id.ptype)

isTrivialIterDomain(id) == id.trivial

hasBlockReduction(td) ==
    \E i \in DOMAIN td : td[i].reduction /\ isParallelTypeThreadDim(td[i].ptype)

hasGridReduction(td) ==
    \E i \in DOMAIN td : td[i].reduction /\ isParallelTypeBlockDim(td[i].ptype)

\* ------------------------------------------------------------ ForLoop

\* kir::ForLoop::isTrivial(): the loop is not materialized.
isTrivial(fl) == fl.trivial

\* The loops that make a grid reduction re-entrant: neither trivial nor bound
\* to a thread or block index.
isEntranceLoop(fl) == ~isTrivial(fl) /\ ~isParallelTypeThread(fl.ptype)

\* ------------------------------------------------- buffer-size helpers

\* An axis of td bound to pt is a broadcast axis.
boundToReductionOrBroadcast_BroadcastOnly(td, pt) ==
    \E i \in DOMAIN td : td[i].ptype = pt /\ td[i].broadcast

\* An axis of td bound to pt is a reduction or a broadcast axis.
boundToReductionOrBroadcast(td, pt) ==
    \E i \in DOMAIN td :
        td[i].ptype = pt /\ (td[i].reduction \/ td[i].broadcast)

RECURSIVE mulLoopExtents(_, _, _)
\* The second loop of both size functions and the loop of
\* getEntranceCountGridReduce, over the first k loops.
mulLoopExtents(buffer_size, loops, k) ==
    IF k = 0 THEN buffer_size
    ELSE LET fl == loops[k]
             rest == mulLoopExtents(buffer_size, loops, k - 1)
         IN IF isTrivial(fl) THEN rest
            ELSE IF isParallelTypeThread(fl.ptype) THEN rest
            ELSE rest * fl.extent

RECURSIVE mulWorkDims_SkipBlockDims(_, _, _)
\* The first loop skipping every dimension bound to a reduction or broadcast
\* axis, block dimensions included.
mulWorkDims_SkipBlockDims(buffer_size, td, k) ==
    IF k = 0 THEN buffer_size
    ELSE LET pt == kParallelTypeThreads[k]
             pt_dim == parDim[pt]
             rest == mulWorkDims_SkipBlockDims(buffer_size, td, k - 1)
         IN IF pt_dim = 0 \/ pt_dim = 1 THEN rest
            ELSE IF boundToReductionOrBroadcast(td, pt) THEN rest
            ELSE rest * pt_dim

RECURSIVE mulWorkDims(_, _, _)
\* The first loop of getGridCommWorkBufferSize, over the first k entries of
\* kParallelTypeThreads.
mulWorkDims(buffer_size, td, k) ==
    IF k = 0 THEN buffer_size
    ELSE LET pt == kParallelTypeThreads[k]
             pt_dim == parDim[pt]
             rest == mulWorkDims(buffer_size, td, k - 1)
         IN IF pt_dim = 0 \/ pt_dim = 1 THEN rest
            ELSE IF isParallelTypeThreadDim(pt) /\ boundToReductionOrBroadcast(td, pt)
                 THEN rest
            ELSE rest * pt_dim

getGridCommWorkBufferSize(td, loops, expansion_factor) ==
    mulLoopExtents(mulWorkDims(expansion_factor, td, Len(kParallelTypeThreads)),
                   loops, Len(loops))

RECURSIVE mulSyncDims_KeepBound(_, _, _)
\* The first loop without the test of the axes bound to the dimension.
mulSyncDims_KeepBound(buffer_size, td, k) ==
    IF k = 0 THEN buffer_size
    ELSE LET pt == kParallelTypeBIDs[k]
             pt_dim == parDim[pt]
             rest == mulSyncDims_KeepBound(buffer_size, td, k - 1)
         IN IF pt_dim = 0 \/ pt_dim = 1 THEN rest
            ELSE rest * pt_dim

RECURSIVE mulSyncDims(_, _, _)
\* The first loop of getGridSyncBufferSize, over the first k entries of
\* kParallelTypeBIDs.
mulSyncDims(buffer_size, td, k) ==
    IF k = 0 THEN buffer_size
    ELSE LET pt == kParallelTypeBIDs[k]
             pt_dim == parDim[pt]
             rest == mulSyncDims(buffer_size, td, k - 1)
         IN IF pt_dim = 0 \/ pt_dim = 1 THEN rest
            ELSE IF boundToReductionOrBroadcast(td, pt) THEN rest
            ELSE rest * pt_dim

getGridSyncBufferSize(td, loops) ==
    mulLoopExtents(mulSyncDims(1, td, Len(kParallelTypeBIDs)), loops, Len(loops))

\* The entrance count without the innermost loop.
getEntranceCountGridReduce_Outer(loops) ==
    mulLoopExtents(1, loops, IF loops = <<>> THEN 0 ELSE Len(loops) - 1)

getEntranceCountGridReduce(loops) == mulLoopExtents(1, loops, Len(loops))

RECURSIVE linearIndex_NoStride(_, _, _)
\* The linear index without the multiplication by the extent.
linearIndex_NoStride(loops, a, k) ==
    IF k = 0 THEN 0
    ELSE LET fl == loops[k]
             rest == linearIndex_NoStride(loops, a, k - 1)
         IN IF isTrivial(fl) THEN rest
            ELSE IF isParallelTypeThread(fl.ptype) THEN rest
            ELSE rest + a[k]

RECURSIVE linearIndex(_, _, _)
\* The loop of getEntranceLinIndGridReduce over the first k loops, under the
\* assignment a of a value to every loop's index.
linearIndex(loops, a, k) ==
    IF k = 0 THEN 0
    ELSE LET fl == loops[k]
             rest == linearIndex(loops, a, k - 1)
         IN IF isTrivial(fl) THEN rest
            ELSE IF isParallelTypeThread(fl.ptype) THEN rest
            ELSE rest * fl.extent + a[k]

\* Every assignment of an index value to each of the loops.
Assignments(loops) ==
    {a \in [DOMAIN loops -> 0 .. MaxLoopExtent - 1] :
        \A k \in DOMAIN loops : a[k] < loops[k].extent}

getEntranceLinIndGridReduce(loops) ==
    [a \in Assignments(loops) |-> linearIndex(loops, a, Len(loops))]

\* kernel()->zeroVal() as an index expression over the loops.
zeroVal(loops) == [a \in Assignments(loops) |-> 0]

\* ------------------------------------------------------ kernel IR nodes

NullScope == <<0, "body">>

\* A kernel IR node as IrBuilder::create leaves it before the fields of its
\* kind are set: no predicate, no buffers, empty bodies.
Node ==
    [kind |-> "none", op |-> "none", args |-> <<>>, idx |-> 0, td |-> <<>>,
     pred |-> "none", wpred |-> "none",
     bufs |-> <<>>, sync |-> 0, entrance_ind |-> <<>>, n_entrances |-> 0,
     allreduce |-> FALSE, of |-> 0,
     size |-> 0, dtype |-> "none", zero_init |-> FALSE,
     extent |-> 0, ptype |-> "none", trivial |-> FALSE,
     body |-> <<>>, elseBody |-> <<>>]

\* ir_utils::allocGlobalBufferForGridComm: a global-memory kir::Allocate.
allocGlobalBufferForGridComm(buffer_size, dtype, zero_init) ==
    [Node EXCEPT !.kind = "Allocate", !.size = buffer_size, !.dtype = dtype,
                 !.zero_init = zero_init]

\* ------------------------------------------------- IndexLowering state

\* What a handler works on: the arena, the top-level list, and whether an
\* assertion has thrown.
Lowering == [exprs |-> exprs, lowered |-> lowered_exprs_, ok |-> TRUE]

\* IrBuilder::create: the new node is the last of the arena.
create(s, node) == [s EXCEPT !.exprs = Append(@, node)]

created(s) == Len(s.exprs)

throw(s) == [s EXCEPT !.ok = FALSE]

\* Every expression is pushed to the top-level list.
pushBack_TopLevel(s, e) == [s EXCEPT !.lowered = Append(@, e)]

pushBack(s, e) ==
    IF active_scope_ = NullScope
    THEN [s EXCEPT !.lowered = Append(@, e)]
    ELSE [s EXCEPT !.exprs[active_scope_[1]][active_scope_[2]] = Append(@, e)]

\* insertAtTopLevel appending at the end of the top-level list.
insertAtTopLevel_AtEnd(s, e) ==
    IF s.lowered = <<>> THEN throw(s) ELSE [s EXCEPT !.lowered = Append(@, e)]

insertAtTopLevel(s, e) ==
    IF s.lowered = <<>>
    THEN throw(s)
    ELSE [s EXCEPT !.lowered =
              SubSeq(@, 1, Len(@) - 1) \o <<e>> \o <<@[Len(@)]>>]

\* for_loops_ as the loops themselves.
forLoops == [k \in DOMAIN for_loops_ |-> exprs[for_loops_[k]]]

\* ------------------------------------------------------- ReductionOp

\* The assertion with the test of the extent negated.
noSerialReduction_ExtentOne(td) ==
    ~\E i \in DOMAIN td :
        ~isThread(td[i]) /\ td[i].reduction /\ td[i].extent = 1

\* The assertion of both handleGridReduction overloads: no reduction axis
\* outside the thread and block dimensions, unless its extent is the
\* constant one.
noSerialReduction(td) ==
    ~\E i \in DOMAIN td :
        ~isThread(td[i]) /\ td[i].reduction /\ td[i].extent # 1

\* The assertion of handle(WelfordOp): no reduction axis outside the thread
\* and block dimensions.
noSerialReductionWelford(td) ==
    ~\E i \in DOMAIN td : ~isThread(td[i]) /\ td[i].reduction

is_within_a_loop(td) == \E i \in DOMAIN td : ~isTrivialIterDomain(td[i])

\* The size handleGridReduction(ReductionOp) and handleGridWelford give the
\* work buffer: the loops count only for a privatized buffer, and the buffer
\* of an allreduce within a loop is doubled.
reduceBufferLoops(allreduce, loops) == IF ~allreduce THEN loops ELSE <<>>

\* The work buffer doubled for every reduction.
reduceBufferExpansion_Always(td, allreduce) == 2

reduceBufferExpansion(td, allreduce) ==
    IF allreduce /\ is_within_a_loop(td) THEN 2 ELSE 1

\* Only the write predicate is copied.
withPredicates_WriteOnly(node, rop) ==
    [node EXCEPT !.wpred = IF rop.wpred # "none" THEN rop.wpred ELSE @]

\* setPredicate / setWritePredicate under `if (rop->predicate())`.
withPredicates(node, rop) ==
    [node EXCEPT !.pred = IF rop.pred # "none" THEN rop.pred ELSE @,
                 !.wpred = IF rop.wpred # "none" THEN rop.wpred ELSE @]

AllocateFusedReduction(grid_expr) ==
    [Node EXCEPT !.kind = "AllocateFusedReduction", !.of = grid_expr]

handleBlockReduction(s, rop) ==
    LET indexed_rop ==
            withPredicates(
                [Node EXCEPT !.kind = "ReductionOp", !.op = rop.op,
                             !.args = <<"out", "in">>,
                             !.allreduce = rop.allreduce], rop)
        s1 == create(s, indexed_rop)
    IN pushBack(s1, created(s1))

\* The buffers pushed after the node that uses them.
pushBackGridReduction_NodeFirst(s, reduce_buffer, sync_buffer, grid_reduction) ==
    pushBack(pushBack(pushBack(s, grid_reduction), reduce_buffer), sync_buffer)

\* The three pushBack calls that end handleGridReduction(ReductionOp).
pushBackGridReduction(s, reduce_buffer, sync_buffer, grid_reduction) ==
    pushBack(pushBack(pushBack(s, reduce_buffer), sync_buffer), grid_reduction)

handleGridReduction(s, rop) ==
    LET out_domain == rop.td
        privatize_buffer == ~rop.allreduce
        loops == reduceBufferLoops(rop.allreduce, forLoops)
        reduce_buffer ==
            allocGlobalBufferForGridComm(
                getGridCommWorkBufferSize(
                    out_domain, loops,
                    reduceBufferExpansion(out_domain, rop.allreduce)),
                rop.dtype, FALSE)
        sync_buffer ==
            allocGlobalBufferForGridComm(
                getGridSyncBufferSize(out_domain, loops), "Int", TRUE)
        entrance_ind ==
            IF privatize_buffer THEN getEntranceLinIndGridReduce(forLoops)
            ELSE zeroVal(forLoops)
        n_entrances ==
            IF privatize_buffer THEN getEntranceCountGridReduce(forLoops) ELSE 1
        s1 == create(s, reduce_buffer)
        s2 == create(s1, sync_buffer)
        grid_reduction ==
            withPredicates(
                [Node EXCEPT !.kind = "GridReduction", !.op = rop.op,
                             !.args = <<"out", "in">>,
                             !.bufs = <<created(s1)>>, !.sync = created(s2),
                             !.entrance_ind = entrance_ind,
                             !.n_entrances = n_entrances,
                             !.allreduce = rop.allreduce], rop)
        s3 == create(s2, grid_reduction)
        s4 == pushBackGridReduction(s3, created(s1), created(s2), created(s3))
        s5 == create(s4, AllocateFusedReduction(created(s3)))
    IN IF ~noSerialReduction(out_domain) THEN throw(s)
       ELSE IF rop.allreduce THEN insertAtTopLevel(s5, created(s5))
       ELSE s4

\* handle(ReductionOp) asking for a block reduction before a grid reduction.
handleReductionOp_BlockFirst(s, rop) ==
    LET s1 == create(s, [Node EXCEPT !.kind = "BinaryOp", !.op = rop.op,
                                     !.args = <<"out", "out", "in">>])
    IN IF hasBlockReduction(rop.td) THEN handleBlockReduction(s, rop)
       ELSE IF hasGridReduction(rop.td) THEN handleGridReduction(s, rop)
       ELSE pushBack(s1, created(s1))

handleReductionOp(s, rop) ==
    LET has_block_reduce == hasBlockReduction(rop.td)
        has_grid_reduce == hasGridReduction(rop.td)
        s1 == create(s, [Node EXCEPT !.kind = "BinaryOp", !.op = rop.op,
                                     !.args = <<"out", "out", "in">>])
    IN IF has_grid_reduce THEN handleGridReduction(s, rop)
       ELSE IF has_block_reduce THEN handleBlockReduction(s, rop)
       ELSE pushBack(s1, created(s1))

\* ------------------------------------------------ GroupedReductionOp

createAll(s, nodes) == [s EXCEPT !.exprs = @ \o nodes]

RECURSIVE pushBackAll_Reversed(_, _)
\* The expressions pushed last first.
pushBackAll_Reversed(s, es) ==
    IF es = <<>> THEN s
    ELSE pushBack(pushBackAll_Reversed(s, Tail(es)), Head(es))

RECURSIVE pushBackAll(_, _)
pushBackAll(s, es) ==
    IF es = <<>> THEN s ELSE pushBackAll(pushBack(s, Head(es)), Tail(es))

handleGroupedBlockReduction(s, grouped_rop) ==
    LET indexed_rop ==
            withPredicates(
                [Node EXCEPT !.kind = "GroupedReductionOp", !.op = grouped_rop.op,
                             !.args = <<"outputs", "inputs">>,
                             !.allreduce = grouped_rop.allreduce], grouped_rop)
        s1 == create(s, indexed_rop)
    IN pushBack(s1, created(s1))

handleGroupedGridReduction(s, grouped_rop) ==
    LET out_domain == grouped_rop.td
        n == grouped_rop.n
        base == Len(s.exprs)
        reduce_buffers ==
            [i \in 1 .. n |->
                [allocGlobalBufferForGridComm(
                    getGridCommWorkBufferSize(
                        out_domain, forLoops,
                        reduceBufferExpansion(out_domain, grouped_rop.allreduce)),
                    grouped_rop.dtypes[i], FALSE) EXCEPT !.idx = i]]
        sync_buffer ==
            allocGlobalBufferForGridComm(
                getGridSyncBufferSize(out_domain, forLoops), "Int", TRUE)
        s1 == create(createAll(s, reduce_buffers), sync_buffer)
        grid_reduction ==
            withPredicates(
                [Node EXCEPT !.kind = "GroupedGridReduction", !.op = grouped_rop.op,
                             !.args = <<"outputs", "inputs">>,
                             !.bufs = [i \in 1 .. n |-> base + i],
                             !.sync = created(s1),
                             !.allreduce = grouped_rop.allreduce], grouped_rop)
        s2 == create(s1, grid_reduction)
        s3 == pushBack(
                  pushBack(pushBackAll(s2, [i \in 1 .. n |-> base + i]), created(s1)),
                  created(s2))
        s4 == create(s3, AllocateFusedReduction(created(s2)))
    IN IF ~noSerialReduction(out_domain) THEN throw(s)
       ELSE IF grouped_rop.allreduce THEN insertAtTopLevel(s4, created(s4))
       ELSE s3

handleGroupedReductionOp(s, grouped_rop) ==
    LET has_block_reduce == hasBlockReduction(grouped_rop.td)
        has_grid_reduce == hasGridReduction(grouped_rop.td)
        n == grouped_rop.n
        base == Len(s.exprs)
        binary_ops ==
            [i \in 1 .. n |->
                [Node EXCEPT !.kind = "BinaryOp", !.op = grouped_rop.op,
                             !.args = <<"out", "out", "in">>, !.idx = i]]
    IN IF has_grid_reduce THEN handleGroupedGridReduction(s, grouped_rop)
       ELSE IF has_block_reduce THEN handleGroupedBlockReduction(s, grouped_rop)
       ELSE pushBackAll(createAll(s, binary_ops), [i \in 1 .. n |-> base + i])

\* --------------------------------------------------------- WelfordOp

\* kernel()->trueVal() as a predicate.
TruePredicate == "true"

handleGridWelford(s, indexed_wop) ==
    LET wop == s.exprs[indexed_wop]
        out_domain == wop.td
        privatize_buffer == ~wop.allreduce
        loops == reduceBufferLoops(wop.allreduce, forLoops)
        work_buffer_size ==
            getGridCommWorkBufferSize(
                out_domain, loops,
                reduceBufferExpansion(out_domain, wop.allreduce))
        base == Len(s.exprs)
        out_var_buffer ==
            [allocGlobalBufferForGridComm(work_buffer_size, wop.dtype, FALSE)
                EXCEPT !.args = <<"outVar">>]
        out_avg_buffer ==
            [allocGlobalBufferForGridComm(work_buffer_size, wop.dtype, FALSE)
                EXCEPT !.args = <<"outAvg">>]
        out_N_buffer ==
            [allocGlobalBufferForGridComm(work_buffer_size, "Int", FALSE)
                EXCEPT !.args = <<"outN">>]
        sync_buffer ==
            allocGlobalBufferForGridComm(
                getGridSyncBufferSize(out_domain, loops), "Int", TRUE)
        entrance_ind ==
            IF privatize_buffer THEN getEntranceLinIndGridReduce(forLoops)
            ELSE zeroVal(forLoops)
        n_entrances ==
            IF privatize_buffer THEN getEntranceCountGridReduce(forLoops) ELSE 1
        block_reduce_separated == hasBlockReduction(out_domain) /\ ~wop.allreduce
        grid_welford ==
            [Node EXCEPT !.kind = "GridWelford", !.op = "welford",
                         !.of = indexed_wop,
                         !.bufs = <<base + 1, base + 2, base + 3>>,
                         !.sync = base + 4,
                         !.entrance_ind = entrance_ind,
                         !.n_entrances = n_entrances,
                         !.allreduce = wop.allreduce,
                         !.pred = IF wop.pred # "none"
                                  THEN IF block_reduce_separated THEN TruePredicate
                                       ELSE wop.pred
                                  ELSE @,
                         !.wpred = IF wop.wpred # "none" THEN wop.wpred ELSE @]
        s1 == createAll(s, <<out_var_buffer, out_avg_buffer, out_N_buffer,
                             sync_buffer, grid_welford>>)
        s2 == IF block_reduce_separated THEN pushBack(s1, indexed_wop) ELSE s1
        s3 == pushBackAll(s2, <<base + 1, base + 2, base + 3, base + 4, base + 5>>)
        s4 == create(s3, AllocateFusedReduction(base + 5))
    IN IF wop.allreduce THEN insertAtTopLevel(s4, created(s4)) ELSE s3

\* handle(WelfordOp) taking the grid path for a block-only reduction too.
handleWelfordOp_GridAlways(s, wop) ==
    LET out_domain == wop.td
        has_block_reduce == hasBlockReduction(out_domain)
        has_grid_reduce == hasGridReduction(out_domain)
        indexed_wop ==
            withPredicates(
                [Node EXCEPT !.kind = "WelfordOp", !.op = "welford",
                             !.args = <<"outAvg", "outVar", "outN",
                                        "inAvg", "inVar", "inN">>,
                             !.td = out_domain, !.dtype = wop.dtype,
                             !.allreduce = wop.allreduce], wop)
        s1 == create(s, indexed_wop)
    IN IF has_grid_reduce /\ ~noSerialReductionWelford(out_domain) THEN throw(s)
       ELSE IF ~has_block_reduce /\ ~has_grid_reduce THEN pushBack(s1, created(s1))
       ELSE handleGridWelford(s1, created(s1))

handleWelfordOp(s, wop) ==
    LET out_domain == wop.td
        has_block_reduce == hasBlockReduction(out_domain)
        has_grid_reduce == hasGridReduction(out_domain)
        indexed_wop ==
            withPredicates(
                [Node EXCEPT !.kind = "WelfordOp", !.op = "welford",
                             !.args = <<"outAvg", "outVar", "outN",
                                        "inAvg", "inVar", "inN">>,
                             !.td = out_domain, !.dtype = wop.dtype,
                             !.allreduce = wop.allreduce], wop)
        s1 == create(s, indexed_wop)
    IN IF has_grid_reduce /\ ~noSerialReductionWelford(out_domain) THEN throw(s)
       ELSE IF ~has_block_reduce /\ ~has_grid_reduce THEN pushBack(s1, created(s1))
       ELSE IF ~has_grid_reduce THEN pushBack(s1, created(s1))
       ELSE handleGridWelford(s1, created(s1))

\* ----------------------------------------------- plain expressions

\* The operator type of the source is not carried over.
handleUnaryOp_Cast(s, uop) ==
    LET s1 == create(s, [Node EXCEPT !.kind = "UnaryOp", !.op = "cast",
                                     !.args = <<"out", "in">>])
    IN pushBack(s1, created(s1))

handleUnaryOp(s, uop) ==
    LET s1 == create(s, [Node EXCEPT !.kind = "UnaryOp", !.op = uop.op,
                                     !.args = <<"out", "in">>])
    IN pushBack(s1, created(s1))

handleBinaryOp(s, bop) ==
    LET s1 == create(s, [Node EXCEPT !.kind = "BinaryOp", !.op = bop.op,
                                     !.args = <<"out", "lhs", "rhs">>])
    IN pushBack(s1, created(s1))

handleTernaryOp(s, top) ==
    LET s1 == create(s, [Node EXCEPT !.kind = "TernaryOp", !.op = top.op,
                                     !.args = <<"out", "in1", "in2", "in3">>])
    IN pushBack(s1, created(s1))

\* handle(ViewAsScalar): `mapped` is the set of positions of for_loops_ whose
\* iteration domain the loop map maps to the vector axis; the index is the
\* index of the first of them, and there has to be one.
handleViewAsScalar(s, uop, mapped) ==
    LET first == CHOOSE k \in mapped : \A j \in mapped : k <= j
        s1 == create(s, [Node EXCEPT !.kind = "ViewAsScalar", !.op = uop.op,
                                     !.args = <<"out", "in", "vector_id">>,
                                     !.idx = for_loops_[first]])
    IN IF mapped = {} THEN throw(s) ELSE pushBack(s1, created(s1))

handleMmaOp(s, mma) ==
    LET s1 == create(s, [Node EXCEPT !.kind = "MmaOp", !.op = mma.op,
                                     !.args = <<"out", "a", "b", "init">>])
    IN pushBack(s1, created(s1))

\* The broadcast is taken for a grid broadcast only if it spans BIDx.
grid_broadcast_needed_XOnly(parallel_bitmap) == "BIDx" \in parallel_bitmap

\* block_x || block_y || block_z
grid_broadcast_needed(parallel_bitmap) ==
    \E pt \in Range(kParallelTypeBIDs) : pt \in parallel_bitmap

\* handle(BroadcastOp); bop.parallel_bitmap is
\* threadPredMap().getParallelBroadcastDomains(out_tv).
handleBroadcastOp(s, bop) ==
    LET out_domain == bop.td
        base == Len(s.exprs)
        indexed_expr ==
            [Node EXCEPT !.kind = "BroadcastOp", !.op = bop.op,
                         !.args = <<"out", "in">>, !.td = out_domain,
                         !.dtype = bop.dtype,
                         !.pred = IF bop.pred # "none" THEN bop.pred ELSE @]
        broadcast_buffer ==
            allocGlobalBufferForGridComm(
                getGridCommWorkBufferSize(out_domain, <<>>, 1), bop.dtype, FALSE)
        sync_buffer ==
            allocGlobalBufferForGridComm(
                getGridSyncBufferSize(out_domain, <<>>), "Int", TRUE)
        grid_broadcast ==
            [Node EXCEPT !.kind = "GridBroadcast", !.op = bop.op,
                         !.of = base + 1,
                         !.bufs = <<base + 2>>, !.sync = base + 3,
                         !.pred = IF bop.pred # "none" THEN bop.pred ELSE @]
        s1 == create(s, indexed_expr)
        s2 == createAll(s1, <<broadcast_buffer, sync_buffer, grid_broadcast>>)
    IN IF ~grid_broadcast_needed(bop.parallel_bitmap)
       THEN pushBack(s1, created(s1))
       ELSE pushBackAll(s2, <<base + 2, base + 3, base + 4>>)

\* handle(kir::Allocate), handle(kir::BlockSync), handle(kir::GridSync): the
\* node of the source kernel itself is pushed.
handlePassThrough(s, node) ==
    LET s1 == create(s, node) IN pushBack(s1, created(s1))

\* ------------------------------------------------- the source kernel

\* The for-loops a source kernel is made of: serial loops of every extent,
\* a vectorized loop, which is trivial whatever its extent, and a loop bound
\* to a thread index.
SourceLoops ==
    {[extent |-> e, ptype |-> "Serial", trivial |-> FALSE] : e \in LoopExtents}
    \cup {[extent |-> MaxLoopExtent, ptype |-> "Vectorize", trivial |-> TRUE],
          [extent |-> MaxLoopExtent, ptype |-> "TIDy", trivial |-> FALSE]}

\* The parallel dimensions of the kernels lowered.
ParallelDimensionMaps ==
    {[pt \in Range(kParallelTypeThreads) |->
         CASE pt = "BIDx" -> bx [] pt = "BIDy" -> 1 [] pt = "TIDx" -> tx
           [] pt = "TIDy" -> MaxLoopExtent [] OTHER -> 0] :
     bx \in {5}, tx \in {7}}

Serial(ext, red) == IterDomain("Serial", ext, red, FALSE, ext = 1)

\* An axis bound to a thread or block index; its extent is the parallel
\* dimension.
Parallel(pt, red, bc) == IterDomain(pt, parDim[pt], red, bc, TRUE)

\* The output domains of the reductions lowered.
OutDomains ==
    {<<Serial(2, FALSE), Serial(2, TRUE)>>,
     <<Parallel("TIDx", TRUE, FALSE)>>,
     <<Parallel("BIDx", TRUE, FALSE), Parallel("TIDx", TRUE, FALSE)>>,
     <<Serial(3, FALSE), Parallel("BIDx", TRUE, FALSE)>>,
     <<Parallel("TIDx", FALSE, FALSE), Parallel("BIDx", TRUE, FALSE)>>,
     <<Parallel("BIDx", TRUE, FALSE), Serial(2, TRUE)>>,
     <<Parallel("BIDx", TRUE, FALSE), Serial(1, TRUE)>>}

Predicates == {"none", "pred"}

WritePredicates == {"none", "wpred"}

\* Sizes of the groups of a GroupedReductionOp.
GroupSizes == {2}

\* The data types of the outputs of an expression, in output order.
OutputDtypes == <<"float", "double", "half">>

\* The reduction expression of kind `kind` the kernel holds.
SourceOp(kind, n) ==
    [kind |-> kind, n |-> n, op |-> "add", dtype |-> "float",
     dtypes |-> SubSeq(OutputDtypes, 1, n),
     td |-> rdesc.td, allreduce |-> rdesc.allreduce,
     pred |-> rdesc.pred, wpred |-> rdesc.wpred]

NoOp == [kind |-> "none", n |-> 0, op |-> "none", dtype |-> "none",
         dtypes |-> <<>>,
         td |-> <<>>, allreduce |-> FALSE, pred |-> "none", wpred |-> "none"]

\* The body a scope reference names, in the arena ex with top-level list top.
bodyOf(ex, top, scope) ==
    IF scope = NullScope THEN top ELSE ex[scope[1]][scope[2]]

scopeBody(scope) == bodyOf(exprs, lowered_exprs_, scope)

\* What `last` records of the state a source expression is dispatched in.
Dispatched(src) ==
    [src |-> src, scope |-> active_scope_, pos |-> Len(scopeBody(active_scope_)),
     top |-> Len(lowered_exprs_), arena |-> Len(exprs), loops |-> forLoops,
     for_loops |-> for_loops_]

\* No call has been made.
NoCall == [fn |-> "none"]

\* ------------------------------------------------------------ actions

Init ==
    /\ parDim \in ParallelDimensionMaps
    /\ rdesc \in [td : OutDomains, allreduce : BOOLEAN,
                  pred : Predicates, wpred : WritePredicates]
    /\ exprs = <<>>
    /\ lowered_exprs_ = <<>>
    /\ active_scope_ = NullScope
    /\ for_loops_ = <<>>
    /\ stack = <<>>
    /\ nsrc = 0
    /\ aborted = FALSE
    /\ last = Dispatched(NoOp)
    /\ trace = <<>>
    /\ calc = NoCall
    /\ pw = NoCall

\* One source expression is dispatched and handled by `handler`.
Handle(src, s) ==
    /\ ~aborted
    /\ nsrc < MaxExprs
    /\ exprs' = s.exprs
    /\ lowered_exprs_' = s.lowered
    /\ aborted' = ~s.ok
    /\ nsrc' = nsrc + 1
    /\ last' = Dispatched(src)
    /\ trace' = Append(trace, Dispatched(src))
    /\ UNCHANGED <<parDim, calc, pw, rdesc, active_scope_, for_loops_, stack>>

HandleReductionOp ==
    LET rop == SourceOp("ReductionOp", 1)
    IN Handle(rop, handleReductionOp(Lowering, rop))

HandleGroupedReductionOp ==
    \E n \in GroupSizes :
        LET grouped_rop == SourceOp("GroupedReductionOp", n)
        IN Handle(grouped_rop, handleGroupedReductionOp(Lowering, grouped_rop))

HandleWelfordOp ==
    LET wop == SourceOp("WelfordOp", 3)
    IN Handle(wop, handleWelfordOp(Lowering, wop))

\* handle(kir::ForLoop), up to the dispatch of the body.
EnterForLoop ==
    \E for_loop \in SourceLoops :
        LET new_for_loop ==
                [Node EXCEPT !.kind = "ForLoop", !.extent = for_loop.extent,
                             !.ptype = for_loop.ptype, !.trivial = for_loop.trivial]
            s1 == create(Lowering, new_for_loop)
            s2 == pushBack(s1, created(s1))
        IN /\ ~aborted
           /\ nsrc < MaxExprs
           /\ exprs' = s2.exprs
           /\ lowered_exprs_' = s2.lowered
           /\ stack' = Append(stack, [kind |-> "ForLoop", node |-> created(s1),
                                      prev_scope |-> active_scope_])
           /\ active_scope_' = <<created(s1), "body">>
           /\ for_loops_' = Append(for_loops_, created(s1))
           /\ nsrc' = nsrc + 1
           /\ last' = Dispatched([NoOp EXCEPT !.kind = "ForLoop"])
           /\ trace' = Append(trace, Dispatched([NoOp EXCEPT !.kind = "ForLoop"]))
           /\ UNCHANGED <<parDim, calc, pw, rdesc, aborted>>

\* The end of handle(kir::ForLoop) without the pop of for_loops_.
ExitForLoop_KeepLoop ==
    /\ ~aborted
    /\ stack # <<>>
    /\ stack[Len(stack)].kind = "ForLoop"
    /\ for_loops_' = for_loops_
    /\ active_scope_' = stack[Len(stack)].prev_scope
    /\ stack' = SubSeq(stack, 1, Len(stack) - 1)
    /\ last' = Dispatched([NoOp EXCEPT !.kind = "ForLoopEnd"])
    /\ trace' = Append(trace, Dispatched([NoOp EXCEPT !.kind = "ForLoopEnd"]))
    /\ UNCHANGED <<parDim, calc, pw, rdesc, exprs, lowered_exprs_, nsrc, aborted>>

\* handle(kir::ForLoop), after the body.
ExitForLoop ==
    /\ ~aborted
    /\ stack # <<>>
    /\ stack[Len(stack)].kind = "ForLoop"
    /\ for_loops_' = SubSeq(for_loops_, 1, Len(for_loops_) - 1)
    /\ active_scope_' = stack[Len(stack)].prev_scope
    /\ stack' = SubSeq(stack, 1, Len(stack) - 1)
    /\ last' = Dispatched([NoOp EXCEPT !.kind = "ForLoopEnd"])
    /\ trace' = Append(trace, Dispatched([NoOp EXCEPT !.kind = "ForLoopEnd"]))
    /\ UNCHANGED <<parDim, calc, pw, rdesc, exprs, lowered_exprs_, nsrc, aborted>>

\* handle(kir::IfThenElse), up to the dispatch of the then-body.
EnterIfThenElse ==
    LET new_ite == [Node EXCEPT !.kind = "IfThenElse", !.pred = "ite"]
        s1 == create(Lowering, new_ite)
        s2 == pushBack(s1, created(s1))
    IN /\ ~aborted
       /\ nsrc < MaxExprs
       /\ exprs' = s2.exprs
       /\ lowered_exprs_' = s2.lowered
       /\ stack' = Append(stack, [kind |-> "thenBody", node |-> created(s1),
                                  prev_scope |-> active_scope_])
       /\ active_scope_' = <<created(s1), "body">>
       /\ nsrc' = nsrc + 1
       /\ last' = Dispatched([NoOp EXCEPT !.kind = "IfThenElse"])
       /\ trace' = Append(trace, Dispatched([NoOp EXCEPT !.kind = "IfThenElse"]))
       /\ UNCHANGED <<parDim, calc, pw, rdesc, for_loops_, aborted>>

\* handle(kir::IfThenElse), between the then-body and the else-body.
ElseIfThenElse ==
    /\ ~aborted
    /\ stack # <<>>
    /\ stack[Len(stack)].kind = "thenBody"
    /\ active_scope_' = <<stack[Len(stack)].node, "elseBody">>
    /\ stack' = [stack EXCEPT ![Len(stack)].kind = "elseBody"]
    /\ last' = Dispatched([NoOp EXCEPT !.kind = "IfThenElseElse"])
    /\ trace' = Append(trace, Dispatched([NoOp EXCEPT !.kind = "IfThenElseElse"]))
    /\ UNCHANGED <<parDim, calc, pw, rdesc, exprs, lowered_exprs_, for_loops_, nsrc, aborted>>

\* handle(kir::IfThenElse), after the else-body.
ExitIfThenElse ==
    /\ ~aborted
    /\ stack # <<>>
    /\ stack[Len(stack)].kind = "elseBody"
    /\ active_scope_' = stack[Len(stack)].prev_scope
    /\ stack' = SubSeq(stack, 1, Len(stack) - 1)
    /\ last' = Dispatched([NoOp EXCEPT !.kind = "IfThenElseEnd"])
    /\ trace' = Append(trace, Dispatched([NoOp EXCEPT !.kind = "IfThenElseEnd"]))
    /\ UNCHANGED <<parDim, calc, pw, rdesc, exprs, lowered_exprs_, for_loops_, nsrc, aborted>>

Next ==
    \/ HandleReductionOp
    \/ HandleGroupedReductionOp
    \/ HandleWelfordOp
    \/ EnterForLoop
    \/ ExitForLoop
    \/ EnterIfThenElse
    \/ ElseIfThenElse
    \/ ExitIfThenElse

Spec == Init /\ [][Next]_vars

\* ------------------------------- kernels of plain expressions

UnaryOpTypes == {"neg", "cast"}

BinaryOpTypes == {"add"}

TernaryOpTypes == {"where"}

Broadcast(pt) == IterDomain(pt, IF pt = "Serial" THEN 1 ELSE parDim[pt], FALSE, TRUE, TRUE)

\* The output domains of the broadcasts lowered.
BroadcastDomains ==
    {<<Broadcast("Serial"), Serial(2, FALSE)>>,
     <<Broadcast("TIDx"), Serial(2, FALSE)>>,
     <<Broadcast("BIDx"), Parallel("TIDx", FALSE, FALSE)>>,
     <<Parallel("BIDx", FALSE, FALSE), Broadcast("BIDz"), Parallel("TIDy", FALSE, FALSE)>>}

\* The parallel types the broadcast axes of td are bound to.
broadcastParallelTypes(td) ==
    {td[i].ptype : i \in {j \in DOMAIN td : td[j].broadcast /\ isThread(td[j])}}

\* The broadcast expression of the kernel: its output domain, its predicate
\* and the parallel broadcast domains the thread predicate map holds for its
\* output, some of the parallel types its broadcast axes are bound to.
BroadcastDescs ==
    {d \in [td : BroadcastDomains, pred : Predicates,
            parallel_bitmap : SUBSET Range(kParallelTypeThreads),
            allreduce : {FALSE}, wpred : {"none"}] :
        d.parallel_bitmap \subseteq broadcastParallelTypes(d.td)}

PlainOp(kind, op) == [NoOp EXCEPT !.kind = kind, !.op = op]

\* The Allocate and sync nodes of the source kernel.
SourceAllocates ==
    {[Node EXCEPT !.kind = "Allocate", !.size = n, !.dtype = "float"] : n \in {4}}

SourceSyncs == {[Node EXCEPT !.kind = k] : k \in {"BlockSync", "GridSync"}}

InitExprs ==
    /\ parDim \in ParallelDimensionMaps
    /\ rdesc \in BroadcastDescs
    /\ exprs = <<>>
    /\ lowered_exprs_ = <<>>
    /\ active_scope_ = NullScope
    /\ for_loops_ = <<>>
    /\ stack = <<>>
    /\ nsrc = 0
    /\ aborted = FALSE
    /\ last = Dispatched(NoOp)
    /\ trace = <<>>
    /\ calc = NoCall
    /\ pw = NoCall

HandleUnaryOp ==
    \E t \in UnaryOpTypes :
        LET uop == PlainOp("UnaryOp", t) IN Handle(uop, handleUnaryOp(Lowering, uop))

HandleBinaryOp ==
    \E t \in BinaryOpTypes :
        LET bop == PlainOp("BinaryOp", t) IN Handle(bop, handleBinaryOp(Lowering, bop))

HandleTernaryOp ==
    \E t \in TernaryOpTypes :
        LET top == PlainOp("TernaryOp", t) IN Handle(top, handleTernaryOp(Lowering, top))

HandleViewAsScalar ==
    \E mapped \in SUBSET DOMAIN for_loops_ :
        LET uop == [kind |-> "ViewAsScalar", op |-> "none", mapped |-> mapped]
        IN Handle(uop, handleViewAsScalar(Lowering, uop, mapped))

HandleMmaOp ==
    LET mma == PlainOp("MmaOp", "mma") IN Handle(mma, handleMmaOp(Lowering, mma))

HandleBroadcastOp ==
    LET bop == [kind |-> "BroadcastOp", op |-> "broadcast", dtype |-> "float",
                td |-> rdesc.td, pred |-> rdesc.pred,
                parallel_bitmap |-> rdesc.parallel_bitmap]
    IN Handle(bop, handleBroadcastOp(Lowering, bop))

HandleAllocate ==
    \E allocate \in SourceAllocates :
        Handle([kind |-> "Allocate", op |-> "none", node |-> allocate],
               handlePassThrough(Lowering, allocate))

HandleSync ==
    \E sync \in SourceSyncs :
        Handle([kind |-> sync.kind, op |-> "none", node |-> sync],
               handlePassThrough(Lowering, sync))

NextExprs ==
    \/ HandleUnaryOp
    \/ HandleBinaryOp
    \/ HandleTernaryOp
    \/ HandleViewAsScalar
    \/ HandleMmaOp
    \/ HandleBroadcastOp
    \/ HandleAllocate
    \/ HandleSync
    \/ EnterForLoop
    \/ ExitForLoop
    \/ EnterIfThenElse
    \/ ElseIfThenElse
    \/ ExitIfThenElse

SpecExprs == InitExprs /\ [][NextExprs]_vars

\* ------------------------------------------- the size helpers alone

\* The deepest loop nest a grid reduction is sized in.
MaxLoopNest == 2

\* The loop nests that enclose a grid reduction, outermost loop first.
LoopNests ==
    UNION {[1 .. n -> SourceLoops] : n \in 0 .. MaxLoopNest}

\* Parallel dimension maps of kernels: every dimension present, and maps
\* with absent dimensions and dimensions of extent one.
GridParallelDimensionMaps ==
    {[BIDx |-> 2, BIDy |-> 3, BIDz |-> 5, TIDx |-> 7, TIDy |-> 11, TIDz |-> 13],
     [BIDx |-> 1, BIDy |-> 0, BIDz |-> 5, TIDx |-> 1, TIDy |-> 11, TIDz |-> 0],
     [BIDx |-> 2, BIDy |-> 1, BIDz |-> 0, TIDx |-> 0, TIDy |-> 1, TIDz |-> 13]}

\* The axes an output domain is made of: serial iteration axes, trivial or
\* not, a serial reduction axis, and for every parallel dimension of the
\* kernel an iteration, a reduction and a broadcast axis bound to it, each
\* trivial or not.
GridAxes ==
    {Serial(2, FALSE), Serial(1, FALSE), Serial(2, TRUE)}
    \cup {[Parallel(pt, k = "reduction", k = "broadcast") EXCEPT !.trivial = t] :
              pt \in {p \in Range(kParallelTypeThreads) : parDim[p] # 0},
              k \in {"iteration", "reduction", "broadcast"}, t \in BOOLEAN}

\* Output domains of one or two axes; a parallel type binds one axis at most.
GridDomains ==
    {<<a>> : a \in GridAxes}
    \cup {td \in GridAxes \X GridAxes :
              td[2].ptype = "Serial" \/ td[2].ptype # td[1].ptype}

\* The lowering pass at rest, for the runs that call functions alone.
NoLowering ==
    /\ rdesc = [td |-> <<>>, allreduce |-> FALSE, pred |-> "none", wpred |-> "none"]
    /\ exprs = <<>>
    /\ lowered_exprs_ = <<>>
    /\ active_scope_ = NullScope
    /\ for_loops_ = <<>>
    /\ stack = <<>>
    /\ nsrc = 0
    /\ aborted = FALSE
    /\ last = Dispatched(NoOp)
    /\ trace = <<>>

\* The sizes handleGridReduction(ReductionOp) gives its two buffers for the
\* output domain td of an op inside the loops for_loops.
gridBufferSizes(td, loops, allreduce) ==
    LET buffer_loops == reduceBufferLoops(allreduce, loops)
        expansion_factor == reduceBufferExpansion(td, allreduce)
    IN [fn |-> "gridBufferSizes", td |-> td, allreduce |-> allreduce,
        for_loops |-> buffer_loops, expansion_factor |-> expansion_factor,
        work |-> getGridCommWorkBufferSize(td, buffer_loops, expansion_factor),
        sync |-> getGridSyncBufferSize(td, buffer_loops)]

InitSizes ==
    /\ parDim \in GridParallelDimensionMaps
    /\ NoLowering
    /\ calc = NoCall
    /\ pw = NoCall

\* The two buffers of a grid reduction are sized.
SizeGridBuffers ==
    /\ calc = NoCall
    /\ \E td \in GridDomains, loops \in LoopNests, allreduce \in BOOLEAN :
           calc' = gridBufferSizes(td, loops, allreduce)
    /\ UNCHANGED <<parDim, pw, lowering>>

NextSizes == SizeGridBuffers

SpecSizes == InitSizes /\ [][NextSizes]_vars

\* ------------------------------- a 1-D sum over blocks and threads

\* The largest tensor the sum is lowered for before its size is doubled.
MaxN == 300

\* The factor the axis of the tensor is split by: the threads of a block.
tidx == 128

ceilDiv(a, b) == (a + b - 1) \div b

\* The parallel dimensions of the kernel that sums nx elements: the axis is
\* split by tidx, the outer part bound to BIDx and the inner part to TIDx.
SumParallelDimensions(nx) ==
    [BIDx |-> ceilDiv(nx, tidx), BIDy |-> 0, BIDz |-> 0,
     TIDx |-> tidx, TIDy |-> 0, TIDz |-> 0]

\* The output domain of the sum: both parts of the axis are reduced.
SumDomain == <<Parallel("BIDx", TRUE, FALSE), Parallel("TIDx", TRUE, FALSE)>>

\* The loops around the sum: one per part of the axis, not materialized.
SumLoops ==
    <<[extent |-> parDim["BIDx"], ptype |-> "BIDx", trivial |-> TRUE],
      [extent |-> parDim["TIDx"], ptype |-> "TIDx", trivial |-> TRUE]>>

InitSum ==
    /\ \E nx \in 1 .. MaxN :
           /\ parDim = SumParallelDimensions(nx)
           /\ calc = [fn |-> "sum", nx |-> nx, sizes |-> NoCall, half |-> NoCall]
    /\ NoLowering
    /\ pw = NoCall

\* The sum is lowered as a grid reduction and its two buffers are sized.
LowerSum ==
    /\ calc.sizes = NoCall
    /\ calc' = [calc EXCEPT !.sizes = gridBufferSizes(SumDomain, SumLoops, FALSE)]
    /\ UNCHANGED <<parDim, pw, lowering>>

\* The same schedule is set up for a tensor of twice the size.
DoubleSum ==
    /\ calc.sizes # NoCall
    /\ calc.half = NoCall
    /\ parDim' = SumParallelDimensions(2 * calc.nx)
    /\ calc' = [fn |-> "sum", nx |-> 2 * calc.nx, sizes |-> NoCall,
                half |-> [nx |-> calc.nx, work |-> calc.sizes.work,
                          sync |-> calc.sizes.sync]]
    /\ UNCHANGED <<pw, lowering>>

NextSum == LowerSum \/ DoubleSum

SpecSum == InitSum /\ [][NextSum]_vars

\* ------------------------- the sum broadcast and added to its input

\* The loops of the kernel as ForLoops of the source.
ReduceAndBroadcastLoops ==
    [k \in DOMAIN SumLoops |->
        [Node EXCEPT !.kind = "ForLoop", !.extent = SumLoops[k].extent,
                     !.ptype = SumLoops[k].ptype, !.trivial = SumLoops[k].trivial]]

\* The output domain of the broadcast: both parts of the axis are broadcast.
ReduceAndBroadcastDomain == <<Broadcast("BIDx"), Broadcast("TIDx")>>

\* The kernel of FusionReduceAndBroadcast1: tv1 = sum(tv0), tv2 =
\* broadcast(tv1), tv3 = tv0 + tv2 inside the loops of the two parts of the
\* axis. Whether the sum is an allreduce and which parallel broadcast
\* domains tv2 has is decided before the lowering, and held by rdesc.
ReduceAndBroadcastKernel ==
    <<[kind |-> "ForLoop", for_loop |-> ReduceAndBroadcastLoops[1]],
      [kind |-> "ForLoop", for_loop |-> ReduceAndBroadcastLoops[2]],
      [kind |-> "ReductionOp"],
      [kind |-> "BroadcastOp"],
      [kind |-> "BinaryOp"],
      [kind |-> "ForLoopEnd"],
      [kind |-> "ForLoopEnd"]>>

InitReduceAndBroadcast ==
    /\ \E nx \in 1 .. MaxN :
           /\ parDim = SumParallelDimensions(nx)
           /\ calc = [fn |-> "FusionReduceAndBroadcast1", nx |-> nx, pc |-> 1,
                      validated |-> "none"]
    /\ rdesc \in [td : {SumDomain}, allreduce : BOOLEAN, pred : Predicates,
                  wpred : {"none"}, parallel_bitmap : SUBSET {"BIDx", "TIDx"}]
    /\ exprs = <<>>
    /\ lowered_exprs_ = <<>>
    /\ active_scope_ = NullScope
    /\ for_loops_ = <<>>
    /\ stack = <<>>
    /\ nsrc = 0
    /\ aborted = FALSE
    /\ last = Dispatched(NoOp)
    /\ trace = <<>>
    /\ pw = NoCall

\* The next expression of the kernel is of kind `kind`.
Generating(kind) ==
    /\ ~aborted
    /\ calc.pc <= Len(ReduceAndBroadcastKernel)
    /\ ReduceAndBroadcastKernel[calc.pc].kind = kind

\* The expression src of the kernel is dispatched and handled.
Generate(src, s) ==
    /\ exprs' = s.exprs
    /\ lowered_exprs_' = s.lowered
    /\ aborted' = ~s.ok
    /\ nsrc' = nsrc + 1
    /\ last' = Dispatched(src)
    /\ trace' = Append(trace, Dispatched(src))
    /\ calc' = [calc EXCEPT !.pc = @ + 1]
    /\ UNCHANGED <<parDim, pw, rdesc, active_scope_, for_loops_, stack>>

GenerateForLoop ==
    /\ Generating("ForLoop")
    /\ LET s1 == create(Lowering, ReduceAndBroadcastKernel[calc.pc].for_loop)
           s2 == pushBack(s1, created(s1))
       IN /\ exprs' = s2.exprs
          /\ lowered_exprs_' = s2.lowered
          /\ stack' = Append(stack, [kind |-> "ForLoop", node |-> created(s1),
                                     prev_scope |-> active_scope_])
          /\ active_scope_' = <<created(s1), "body">>
          /\ for_loops_' = Append(for_loops_, created(s1))
    /\ nsrc' = nsrc + 1
    /\ last' = Dispatched([NoOp EXCEPT !.kind = "ForLoop"])
    /\ trace' = Append(trace, Dispatched([NoOp EXCEPT !.kind = "ForLoop"]))
    /\ calc' = [calc EXCEPT !.pc = @ + 1]
    /\ UNCHANGED <<parDim, pw, rdesc, aborted>>

GenerateForLoopEnd ==
    /\ Generating("ForLoopEnd")
    /\ for_loops_' = SubSeq(for_loops_, 1, Len(for_loops_) - 1)
    /\ active_scope_' = stack[Len(stack)].prev_scope
    /\ stack' = SubSeq(stack, 1, Len(stack) - 1)
    /\ last' = Dispatched([NoOp EXCEPT !.kind = "ForLoopEnd"])
    /\ trace' = Append(trace, Dispatched([NoOp EXCEPT !.kind = "ForLoopEnd"]))
    /\ calc' = [calc EXCEPT !.pc = @ + 1]
    /\ UNCHANGED <<parDim, pw, rdesc, exprs, lowered_exprs_, nsrc, aborted>>

GenerateReductionOp ==
    /\ Generating("ReductionOp")
    /\ LET rop == SourceOp("ReductionOp", 1)
       IN Generate(rop, handleReductionOp(Lowering, rop))

GenerateBroadcastOp ==
    /\ Generating("BroadcastOp")
    /\ LET bop == [kind |-> "BroadcastOp", op |-> "broadcast", dtype |-> "float",
                   td |-> ReduceAndBroadcastDomain, pred |-> rdesc.pred,
                   parallel_bitmap |-> rdesc.parallel_bitmap]
       IN Generate(bop, handleBroadcastOp(Lowering, bop))

GenerateBinaryOp ==
    /\ Generating("BinaryOp")
    /\ LET bop == PlainOp("BinaryOp", "add")
       IN Generate(bop, handleBinaryOp(Lowering, bop))

RECURSIVE getAllExprs(_)
\* KernelExprVisitor::getAllExprs: the expressions es and, for a ForLoop or
\* an IfThenElse, those of its bodies.
getAllExprs(es) ==
    IF es = <<>> THEN {}
    ELSE {Head(es)}
         \cup getAllExprs(exprs[Head(es)].body)
         \cup getAllExprs(exprs[Head(es)].elseBody)
         \cup getAllExprs(Tail(es))

\* kernel->summary().broadcast_parallel_types.at(bc): the parallel broadcast
\* domains of the output of the BroadcastOp.
broadcast_parallel_types(bc) == rdesc.parallel_bitmap

\* The validation looking at the BroadcastOps outside a GridBroadcast only.
validateNoParallelBroadcastExist_BareOnly(kernel) ==
    \A expr \in getAllExprs(kernel) :
        exprs[expr].kind = "BroadcastOp" => broadcast_parallel_types(expr) = {}

\* validateNoParallelBroadcastExist: TRUE if no TORCH_CHECK fails.
validateNoParallelBroadcastExist(kernel) ==
    \A expr \in getAllExprs(kernel) :
        LET bc == IF exprs[expr].kind = "BroadcastOp" THEN expr
                  ELSE IF exprs[expr].kind = "GridBroadcast" THEN exprs[expr].of
                  ELSE 0
        IN bc # 0 => broadcast_parallel_types(bc) = {}

\* The test validates the lowered kernel.
ValidateNoParallelBroadcastExist ==
    /\ ~aborted
    /\ calc.pc = Len(ReduceAndBroadcastKernel) + 1
    /\ calc.validated = "none"
    /\ calc' = [calc EXCEPT !.validated =
                   IF validateNoParallelBroadcastExist(lowered_exprs_)
                   THEN "passed" ELSE "failed"]
    /\ UNCHANGED <<parDim, pw, lowering>>

NextReduceAndBroadcast ==
    \/ GenerateForLoop
    \/ GenerateForLoopEnd
    \/ GenerateReductionOp
    \/ GenerateBroadcastOp
    \/ GenerateBinaryOp
    \/ ValidateNoParallelBroadcastExist

SpecReduceAndBroadcast == InitReduceAndBroadcast /\ [][NextReduceAndBroadcast]_vars

\* ------------------------------------------- grouping of reductions

\* Splits applied to one tensor before the grouping.
MaxSplits == 1

\* The factors of tv->split(1, factor) in the tests.
SplitFactors == {64, 128}

\* sum(tv, {1}) without the record of what tv is computed from.
sum_NoProducers(root, producers) ==
    [root |-> root, producers |-> {}, history |-> <<>>]

\* sum(tv, {1}): the output of a new ReductionOp. root is the fusion input
\* the shape of tv is that of, producers the reductions defined before that
\* tv is computed from; nothing is scheduled yet.
sum(root, producers) ==
    [root |-> root, producers |-> producers, history |-> <<>>]

\* The reductions of FusionGroupedReduction1 and FusionGroupedReduction5:
\* two sums of the same input.
FusionGroupedReduction1 == <<sum(0, {}), sum(0, {})>>

\* FusionGroupedReduction4: the sums of two symbolic inputs.
FusionGroupedReduction4 == <<sum(0, {}), sum(1, {})>>

\* FusionGroupedReduction6: the sums of tv0 + 1, tv0 + 2 and tv0 + 3.
FusionGroupedReduction6 == <<sum(0, {}), sum(0, {}), sum(0, {})>>

\* FusionGroupedReduction7: tv4 sums tv0 + broadcast(tv1).
FusionGroupedReduction7 == <<sum(0, {}), sum(0, {1})>>

GroupedReductionFusions ==
    [FusionGroupedReduction1 |-> FusionGroupedReduction1,
     FusionGroupedReduction4 |-> FusionGroupedReduction4,
     FusionGroupedReduction6 |-> FusionGroupedReduction6,
     FusionGroupedReduction7 |-> FusionGroupedReduction7]

\* The reduction expressions of a fusion that has no grouping yet.
reductionOps(tvs) == {[kind |-> "ReductionOp", outs |-> {i}] : i \in DOMAIN tvs}

\* tv->split(1, factor) on the tv-th reduction.
recordSplit(tvs, tv, factor) == [tvs EXCEPT ![tv].history = Append(@, factor)]

\* The validation of groupReductions: the reductions of S are of tensors of
\* one shape, have one transformation history, and none is computed from
\* another.
canGroup(tvs, S) ==
    /\ \A i, j \in S : tvs[i].root = tvs[j].root
    /\ \A i, j \in S : tvs[i].history = tvs[j].history
    /\ \A i, j \in S : i \notin tvs[j].producers

\* groupReductions(S) on the fusion g: an error that leaves the fusion as it
\* is, or one GroupedReductionOp in the place of the ReductionOps of S.
groupReductions(g, S) ==
    IF ~canGroup(g.tvs, S)
    THEN [g EXCEPT !.status = "throw", !.asked = S]
    ELSE [g EXCEPT !.status = "grouped", !.asked = S,
                   !.exprs = {e \in @ : e.outs \cap S = {}}
                             \cup {[kind |-> "GroupedReductionOp", outs |-> S]}]

\* No parallel dimension is bound when the reductions are grouped.
NoParallelDimensions == [pt \in DOMAIN SumParallelDimensions(1) |-> 0]

InitGroupReductions ==
    /\ parDim = NoParallelDimensions
    /\ NoLowering
    /\ \E test \in DOMAIN GroupedReductionFusions :
           calc = [fn |-> "groupReductions", test |-> test,
                   tvs |-> GroupedReductionFusions[test],
                   exprs |-> reductionOps(GroupedReductionFusions[test]),
                   status |-> "none", asked |-> {}]
    /\ pw = NoCall

\* One reduction is split before the grouping.
Split ==
    /\ calc.status = "none"
    /\ \E tv \in DOMAIN calc.tvs, factor \in SplitFactors :
           /\ Len(calc.tvs[tv].history) < MaxSplits
           /\ calc' = [calc EXCEPT !.tvs = recordSplit(@, tv, factor)]
    /\ UNCHANGED <<parDim, pw, lowering>>

\* The test asks for the grouping of two or more of the reductions.
GroupReductions ==
    /\ calc.status = "none"
    /\ \E S \in SUBSET DOMAIN calc.tvs :
           /\ Cardinality(S) >= 2
           /\ calc' = groupReductions(calc, S)
    /\ UNCHANGED <<parDim, pw, lowering>>

NextGroupReductions ==
    \/ Split
    \/ GroupReductions

SpecGroupReductions == InitGroupReductions /\ [][NextGroupReductions]_vars

\* ------------------------------------------------ pointwise heuristics

kThreadX == 128

kSixteen == 16

max(a, b) == IF a >= b THEN a ELSE b

min(a, b) == IF a <= b THEN a ELSE b

RECURSIVE lastPow2(_)
\* scheduler_utils::lastPow2: the largest power of two not above n.
lastPow2(n) == IF n <= 1 THEN 1 ELSE 2 * lastPow2(n \div 2)

\* What the expression evaluator infers for an extent it cannot evaluate;
\* an extent it can evaluate is inferred as <<value>>.
NoValue == <<>>

\* The root domain of a tensor of iteration axes with the extents given.
RootDomain(extents) ==
    [i \in DOMAIN extents |->
        [extent |-> <<extents[i]>>, reduction |-> FALSE, broadcast |-> FALSE]]

\* The number of axes of out_tv, reduction and broadcast axes included.
nDims_AllAxes(out_tv) == Len(out_tv)

\* The number of axes of out_tv that are neither reduction nor broadcast.
nDims(out_tv) ==
    Cardinality({i \in DOMAIN out_tv :
                    ~(out_tv[i].reduction \/ out_tv[i].broadcast)})

RECURSIVE largestOut_LastOfTies(_, _)
\* The selection with >= for >: among outputs of the greatest number of
\* dimensions the last one wins.
largestOut_LastOfTies(out_tvs, k) ==
    IF k = 0 THEN [largest_out |-> 0, max_dims |-> -1]
    ELSE LET prev == largestOut_LastOfTies(out_tvs, k - 1)
             n_dims == nDims(out_tvs[k])
         IN IF n_dims >= prev.max_dims
            THEN [largest_out |-> k, max_dims |-> n_dims]
            ELSE prev

RECURSIVE largestOut(_, _)
\* The loop that selects the reference among the first k outputs;
\* largest_out 0 is the null pointer.
largestOut(out_tvs, k) ==
    IF k = 0 THEN [largest_out |-> 0, max_dims |-> -1]
    ELSE LET prev == largestOut(out_tvs, k - 1)
             n_dims == nDims(out_tvs[k])
         IN IF n_dims > prev.max_dims
            THEN [largest_out |-> k, max_dims |-> n_dims]
            ELSE prev

RECURSIVE elemProduct(_, _, _)
\* The product of elem_counts[from .. to].
elemProduct(elem_counts, from, to) ==
    IF from > to THEN 1
    ELSE elemProduct(elem_counts, from, to - 1) * elem_counts[to]

RECURSIVE maxElement(_, _, _)
\* std::max_element over v[from .. to]; the iterator of an empty range is
\* never dereferenced.
maxElement(v, from, to) ==
    IF from > to THEN 0
    ELSE IF from = to THEN v[to]
    ELSE max(maxElement(v, from, to - 1), v[to])

RECURSIVE transferSize(_, _, _, _, _)
\* The loops that multiply a transfer size by the element count of each of
\* the dimensions from .. to and by max_dims.
transferSize(size, elem_counts, from, to, max_dims) ==
    IF from > to THEN size
    ELSE transferSize(size, elem_counts, from, to - 1, max_dims)
             * elem_counts[to] * max_dims

\* max_unroll_factor, as computed before the vectorization factor.
maxUnrollFactor(n_elems, max_input_dtype_size, n_tensors, sm_count, rng_no_unroll) ==
    LET by_dtype ==
            ceilDiv(kSixteen \div max_input_dtype_size,
                    max(lastPow2(n_tensors) \div 4, 1))
        by_wave ==
            IF n_elems < sm_count * kThreadX /\ by_dtype > 1
            THEN min(by_dtype, ceilDiv(n_elems, sm_count * kThreadX))
            ELSE by_dtype
    IN IF rng_no_unroll THEN 1 ELSE by_wave

RECURSIVE minWidth(_, _, _)
\* The loop over the vectorizable inputs and outputs.
minWidth(vectorize_factor, widths, k) ==
    IF k = 0 THEN vectorize_factor
    ELSE min(minWidth(vectorize_factor, widths, k - 1), widths[k])

\* The locals of the 2D scheduling logic before the search; no
\* min_total_transfer stands for the largest int64_t.
NoBreakPoint ==
    [break_point |-> 0, right_elem_count |-> 0, bdimx |-> kThreadX,
     bdimy |-> 1, gdimx |-> 1, gdimy |-> 1, min_total_transfer |-> <<>>]

\* gdimy at the end of an iteration that uses its break point.
gridDimY(remainder_right, bdimy) ==
    IF remainder_right > 1 /\ bdimy <= 1 THEN remainder_right ELSE 1

\* The iteration with > for >= in the comparison with min_total_transfer: a
\* later candidate of the same transfer size replaces an earlier one.
tryBreakPoint_LastOfTies(h, break_point_i, c) ==
    LET n == Len(c.elem_counts)
        cur_right_elem_count == elemProduct(c.elem_counts, break_point_i + 1, n)
        cur_left_elem_count == c.n_elems \div cur_right_elem_count
        left_max_dims == maxElement(c.mapping_count, 1, break_point_i)
        right_max_dims == maxElement(c.mapping_count, break_point_i + 1, n)
        cur_transfer_size ==
            transferSize(
                transferSize(1, c.elem_counts, 1, break_point_i, left_max_dims),
                c.elem_counts, break_point_i + 1, n, right_max_dims)
        bdimx == min(ceilDiv(cur_right_elem_count, c.max_unroll_factor), kThreadX)
        bdimy == IF cur_left_elem_count > c.device_multiprocessor_count
                 THEN kThreadX \div bdimx ELSE 1
        remainder_left == ceilDiv(cur_left_elem_count, bdimy)
        remainder_right ==
            ceilDiv(cur_right_elem_count, bdimy * bdimx * c.max_unroll_factor)
    IN IF cur_right_elem_count <= 1 THEN h
       ELSE IF cur_left_elem_count <= 1 THEN h
       ELSE IF \/ /\ h.min_total_transfer # <<>>
                  /\ cur_transfer_size > h.min_total_transfer[1]
               \/ cur_transfer_size * 10 >= c.transfer_size_1d * 9
            THEN h
       ELSE IF cur_right_elem_count < c.max_unroll_factor THEN h
       ELSE [break_point |-> break_point_i,
             right_elem_count |-> cur_right_elem_count,
             bdimx |-> bdimx, bdimy |-> bdimy, gdimx |-> remainder_left,
             gdimy |-> gridDimY(remainder_right, bdimy),
             min_total_transfer |-> <<cur_transfer_size>>]

\* One iteration of the search, for the break point break_point_i (counted
\* from 0): h holds the locals, c the values the search reads.
tryBreakPoint(h, break_point_i, c) ==
    LET n == Len(c.elem_counts)
        cur_right_elem_count == elemProduct(c.elem_counts, break_point_i + 1, n)
        cur_left_elem_count == c.n_elems \div cur_right_elem_count
        left_max_dims == maxElement(c.mapping_count, 1, break_point_i)
        right_max_dims == maxElement(c.mapping_count, break_point_i + 1, n)
        cur_transfer_size ==
            transferSize(
                transferSize(1, c.elem_counts, 1, break_point_i, left_max_dims),
                c.elem_counts, break_point_i + 1, n, right_max_dims)
        bdimx == min(ceilDiv(cur_right_elem_count, c.max_unroll_factor), kThreadX)
        bdimy == IF cur_left_elem_count > c.device_multiprocessor_count
                 THEN kThreadX \div bdimx ELSE 1
        remainder_left == ceilDiv(cur_left_elem_count, bdimy)
        remainder_right ==
            ceilDiv(cur_right_elem_count, bdimy * bdimx * c.max_unroll_factor)
    IN IF cur_right_elem_count <= 1 THEN h
       ELSE IF cur_left_elem_count <= 1 THEN h
       ELSE IF \/ /\ h.min_total_transfer # <<>>
                  /\ cur_transfer_size >= h.min_total_transfer[1]
               \/ cur_transfer_size * 10 >= c.transfer_size_1d * 9
            THEN h
       ELSE IF cur_right_elem_count < c.max_unroll_factor THEN h
       ELSE [break_point |-> break_point_i,
             right_elem_count |-> cur_right_elem_count,
             bdimx |-> bdimx, bdimy |-> bdimy, gdimx |-> remainder_left,
             gdimy |-> gridDimY(remainder_right, bdimy),
             min_total_transfer |-> <<cur_transfer_size>>]

RECURSIVE breakPointSearch(_, _)
\* The search over the break points 0 .. k - 1, in ascending order.
breakPointSearch(c, k) ==
    IF k = 0 THEN NoBreakPoint
    ELSE tryBreakPoint(breakPointSearch(c, k - 1), k - 1, c)

\* A default-constructed PointwiseParams.
PointwiseParams ==
    [break_point |-> 0, split_block |-> FALSE, split_grid_y_dim |-> FALSE,
     vectorize |-> FALSE, inner_factor |-> 1, TIDx |-> 0, TIDy |-> 0]

\* The parameters with split_block set for every bdimy.
emitParams_SplitAlways(params, h) ==
    [status |-> "params",
     params |-> [params EXCEPT !.break_point = h.break_point,
                               !.split_block = h.bdimy >= 1,
                               !.TIDx = h.bdimx,
                               !.TIDy = h.bdimy,
                               !.split_grid_y_dim = h.gdimy > 65535]] @@ h

\* emitParams binding a block of kThreadX rows whenever the block is split.
emitParams_FullRows(params, h) ==
    IF ~(h.right_elem_count > 0 \/ params.break_point = 0)
    THEN [status |-> "throw", what |-> "right_elem_count"]
    ELSE IF ~(~(h.bdimy > 1 /\ h.gdimy > 1))
    THEN [status |-> "throw", what |-> "bdimy and gdimy"]
    ELSE [status |-> "params",
          params |-> [params EXCEPT !.break_point = h.break_point,
                                    !.split_block = h.bdimy > 1,
                                    !.TIDx = h.bdimx,
                                    !.TIDy = IF h.bdimy > 1 THEN kThreadX ELSE @,
                                    !.split_grid_y_dim = h.gdimy > 65535]] @@ h

\* The end of getPointwiseHeuristics: the two assertions and the parameters
\* set from the locals h of the search.
emitParams(params, h) ==
    IF ~(h.right_elem_count > 0 \/ params.break_point = 0)
    THEN [status |-> "throw", what |-> "right_elem_count"]
    ELSE IF ~(~(h.bdimy > 1 /\ h.gdimy > 1))
    THEN [status |-> "throw", what |-> "bdimy and gdimy"]
    ELSE [status |-> "params",
          params |-> [params EXCEPT !.break_point = h.break_point,
                                    !.split_block = h.bdimy > 1,
                                    !.TIDx = h.bdimx,
                                    !.TIDy = IF h.bdimy > 1 THEN h.bdimy ELSE @,
                                    !.split_grid_y_dim = h.gdimy > 65535]] @@ h

\* getPointwiseHeuristics returning the default parameters when an extent
\* cannot be inferred.
getPointwiseHeuristics_DefaultOnFailure(f) ==
    LET selected == largestOut(f.out_tvs, Len(f.out_tvs))
        largest_out == f.out_tvs[selected.largest_out]
        ref_root == largest_out
        elem_counts == [ref_i \in DOMAIN ref_root |-> ref_root[ref_i].extent[1]]
        n_elems == elemProduct(elem_counts, 1, Len(elem_counts))
        max_input_dtype_size ==
            maxElement(<<2>> \o f.in_dtype_sizes, 1, 1 + Len(f.in_dtype_sizes))
        n_tensors == Len(f.in_dtype_sizes) + Len(f.out_tvs)
        max_unroll_factor ==
            maxUnrollFactor(n_elems, max_input_dtype_size, n_tensors,
                            f.device_multiprocessor_count, f.rng_no_unroll)
        vectorize_factor ==
            minWidth(max_unroll_factor, f.vectorizable_widths,
                     Len(f.vectorizable_widths))
        params ==
            [PointwiseParams EXCEPT
                !.vectorize = vectorize_factor # 1,
                !.inner_factor = IF vectorize_factor = 1 THEN max_unroll_factor
                                 ELSE vectorize_factor]
        max_dims == maxElement(f.mapping_count, 1, Len(f.mapping_count))
        transfer_size_1d ==
            transferSize(1, elem_counts, 1, Len(elem_counts), max_dims)
        c == [elem_counts |-> elem_counts, n_elems |-> n_elems,
              mapping_count |-> f.mapping_count,
              max_unroll_factor |-> max_unroll_factor,
              device_multiprocessor_count |-> f.device_multiprocessor_count,
              transfer_size_1d |-> transfer_size_1d]
    IN IF selected.largest_out = 0
       THEN [status |-> "throw", what |-> "largest_out"]
       ELSE IF nDims(largest_out) = 0
       THEN [status |-> "default", params |-> PointwiseParams,
             reference |-> selected.largest_out]
       ELSE IF \E ref_i \in DOMAIN ref_root : ref_root[ref_i].extent = NoValue
       THEN [status |-> "default", params |-> PointwiseParams,
             reference |-> selected.largest_out]
       ELSE emitParams(params, breakPointSearch(c, Len(ref_root)))
                @@ [max_unroll_factor |-> max_unroll_factor, n_elems |-> n_elems,
                    reference |-> selected.largest_out]

\* getPointwiseHeuristics for the fusion and the runtime information f.
getPointwiseHeuristics(f) ==
    LET selected == largestOut(f.out_tvs, Len(f.out_tvs))
        largest_out == f.out_tvs[selected.largest_out]
        ref_root == largest_out
        elem_counts == [ref_i \in DOMAIN ref_root |-> ref_root[ref_i].extent[1]]
        n_elems == elemProduct(elem_counts, 1, Len(elem_counts))
        max_input_dtype_size ==
            maxElement(<<2>> \o f.in_dtype_sizes, 1, 1 + Len(f.in_dtype_sizes))
        n_tensors == Len(f.in_dtype_sizes) + Len(f.out_tvs)
        max_unroll_factor ==
            maxUnrollFactor(n_elems, max_input_dtype_size, n_tensors,
                            f.device_multiprocessor_count, f.rng_no_unroll)
        vectorize_factor ==
            minWidth(max_unroll_factor, f.vectorizable_widths,
                     Len(f.vectorizable_widths))
        params ==
            [PointwiseParams EXCEPT
                !.vectorize = vectorize_factor # 1,
                !.inner_factor = IF vectorize_factor = 1 THEN max_unroll_factor
                                 ELSE vectorize_factor]
        max_dims == maxElement(f.mapping_count, 1, Len(f.mapping_count))
        transfer_size_1d ==
            transferSize(1, elem_counts, 1, Len(elem_counts), max_dims)
        c == [elem_counts |-> elem_counts, n_elems |-> n_elems,
              mapping_count |-> f.mapping_count,
              max_unroll_factor |-> max_unroll_factor,
              device_multiprocessor_count |-> f.device_multiprocessor_count,
              transfer_size_1d |-> transfer_size_1d]
    IN IF selected.largest_out = 0
       THEN [status |-> "throw", what |-> "largest_out"]
       ELSE IF nDims(largest_out) = 0
       THEN [status |-> "default", params |-> PointwiseParams,
             reference |-> selected.largest_out]
       ELSE IF \E ref_i \in DOMAIN ref_root : ref_root[ref_i].extent = NoValue
       THEN [status |-> "throw", what |-> "inferred_val"]
       ELSE emitParams(params, breakPointSearch(c, Len(ref_root)))
                @@ [max_unroll_factor |-> max_unroll_factor, n_elems |-> n_elems,
                    reference |-> selected.largest_out]

\* The extents the reference's dimensions are bound to.
PointwiseExtents == {0, 1, 2, 64, 200}

\* Shapes of up to three dimensions, and one whose inner dimension exceeds
\* what a grid holds along y.
PointwiseShapes ==
    UNION {[1 .. n -> PointwiseExtents] : n \in {1, 2, 3}}
    \cup {<<2, 9000000>>}

\* The outputs of the fusions scheduled: one output of every shape, no
\* output, a zero-dimensional output, an output of broadcast axes only,
\* outputs of different ranks, and outputs with an extent that cannot be
\* inferred, of an iteration axis and of a reduction axis.
PointwiseOutputs ==
    {<<RootDomain(extents)>> : extents \in PointwiseShapes}
    \cup {<<>>,
          <<RootDomain(<<>>)>>,
          <<[RootDomain(<<1>>) EXCEPT ![1].broadcast = TRUE]>>,
          <<[RootDomain(<<1, 64>>) EXCEPT ![1].broadcast = TRUE],
            RootDomain(<<2, 64>>)>>,
          <<RootDomain(<<2, 64>>), RootDomain(<<64, 2>>)>>,
          <<RootDomain(<<64>>), RootDomain(<<2, 64>>),
            [RootDomain(<<2, 200, 1>>) EXCEPT ![3].broadcast = TRUE],
            RootDomain(<<2>>)>>,
          <<RootDomain(<<>>), [RootDomain(<<1>>) EXCEPT ![1].reduction = TRUE]>>,
          <<[RootDomain(<<2, 64>>) EXCEPT ![1].extent = NoValue]>>,
          <<[RootDomain(<<2>>) EXCEPT ![1].reduction = TRUE, ![1].extent = NoValue]>>}

\* dataTypeSize of the inputs of the fusions: one float, one complex double,
\* seven halves.
PointwiseInputDtypeSizes == {<<4>>, <<16>>, <<2, 2, 2, 2, 2, 2, 2>>}

MultiprocessorCounts == {2, 80}

\* getVectorizableWidth of each vectorizable input and output.
VectorizableWidths == {<<>>, <<1>>, <<4, 2>>}

\* mappedInputsOutputs: how many inputs and outputs map to each dimension of
\* the reference; for a reference of two dimensions of known extents up to
\* 200 also nine to the one and ten to the other.
MappingCounts(out_tvs) ==
    LET selected == largestOut(out_tvs, Len(out_tvs))
        ref == out_tvs[selected.largest_out]
    IN IF selected.largest_out = 0 THEN {<<>>}
       ELSE [DOMAIN ref -> {1, 2}]
            \cup IF /\ Len(ref) = 2
                    /\ \A i \in DOMAIN ref :
                           ref[i].extent # NoValue /\ ref[i].extent[1] <= 200
                 THEN {<<9, 10>>, <<10, 9>>} ELSE {}

InitPointwise ==
    /\ parDim \in ParallelDimensionMaps
    /\ NoLowering
    /\ calc = NoCall
    /\ pw = NoCall

\* The heuristics are computed for one fusion and its runtime inputs.
GetPointwiseHeuristics ==
    /\ pw = NoCall
    /\ \E out_tvs \in PointwiseOutputs,
          in_dtype_sizes \in PointwiseInputDtypeSizes,
          device_multiprocessor_count \in MultiprocessorCounts,
          rng_no_unroll \in BOOLEAN,
          vectorizable_widths \in VectorizableWidths :
           \E mapping_count \in MappingCounts(out_tvs) :
               LET f == [out_tvs |-> out_tvs, in_dtype_sizes |-> in_dtype_sizes,
                         device_multiprocessor_count |-> device_multiprocessor_count,
                         rng_no_unroll |-> rng_no_unroll,
                         vectorizable_widths |-> vectorizable_widths,
                         mapping_count |-> mapping_count]
               IN pw' = [fn |-> "getPointwiseHeuristics", in |-> f,
                         out |-> getPointwiseHeuristics(f)]
    /\ UNCHANGED <<parDim, calc, lowering>>

NextPointwise == GetPointwiseHeuristics

SpecPointwise == InitPointwise /\ [][NextPointwise]_vars

\* ------------------------------------------------ schedulePointwise

\* Axes of the root domain of the reference tensor.
MaxRootDims == 3

\* Values of params.inner_factor.
InnerFactors == {1, 4}

\* Which of two pairs with one key std::unordered_map keeps when it is built
\* from an initializer list: the standard leaves it open.
DuplicateKeys == {"first", "last"}

\* The extent of the inner axis of a split by the constant n.
Factor(n) == [of |-> "factor", n |-> n, name |-> "none"]

\* NamedScalar::getParallelDim(pt).
getParallelDim(pt) == [of |-> "parallel", n |-> 0, name |-> pt]

\* The i-th axis of a root domain: an iteration or a broadcast axis.
RootAxis(kind, i) ==
    [kind |-> kind, ptype |-> "Serial",
     extent |-> [of |-> "root", n |-> i, name |-> "none"]]

\* The position in the domain of the axis the code names i, negative
\* numbers counting from the end.
axisIndex(domain, i) == (IF i < 0 THEN i + Len(domain) ELSE i) + 1

\* TensorView::merge(axis_o, axis_i), axis_o before axis_i: the merged axis
\* takes the place of axis_o.
merge(tv, axis_o, axis_i) ==
    LET d == tv.domain
        o == axisIndex(d, axis_o)
        i == axisIndex(d, axis_i)
        merged ==
            [kind |-> IF "iter" \in {d[o].kind, d[i].kind} THEN "iter" ELSE "bcast",
             ptype |-> "Serial",
             extent |-> [of |-> "merged", n |-> 0, name |-> "none"]]
    IN IF ~tv.ok THEN tv
       ELSE IF ~({o, i} \subseteq DOMAIN d /\ o < i) THEN throw(tv)
       ELSE [tv EXCEPT !.domain =
                [k \in 1 .. Len(d) - 1 |->
                    IF k = o THEN merged ELSE IF k < i THEN d[k] ELSE d[k + 1]]]

\* TensorView::split(axis, factor): the axis becomes an outer axis and an
\* inner axis of extent factor; only a Serial axis can be split.
split(tv, axis, factor) ==
    LET d == tv.domain
        a == axisIndex(d, axis)
        outer == [d[a] EXCEPT !.extent = [of |-> "outer", n |-> 0, name |-> "none"]]
        inner == [d[a] EXCEPT !.extent = factor]
    IN IF ~tv.ok THEN tv
       ELSE IF a \notin DOMAIN d THEN throw(tv)
       ELSE IF d[a].ptype # "Serial" THEN throw(tv)
       ELSE [tv EXCEPT !.domain =
                [k \in 1 .. Len(d) + 1 |->
                    IF k < a THEN d[k]
                    ELSE IF k = a THEN outer
                    ELSE IF k = a + 1 THEN inner
                    ELSE d[k - 1]]]

\* tv->axis(axis)->parallelize(pt).
parallelize(tv, axis, pt) ==
    LET a == axisIndex(tv.domain, axis)
    IN IF ~tv.ok THEN tv
       ELSE IF a \notin DOMAIN tv.domain THEN throw(tv)
       ELSE [tv EXCEPT !.domain[a].ptype = pt]

\* The std::unordered_map built from the pairs of an initializer list.
old2new(pairs, keeps) ==
    {pairs[k] : k \in {k \in DOMAIN pairs :
        ~\E j \in DOMAIN pairs :
            /\ pairs[j][1] = pairs[k][1]
            /\ IF keeps = "first" THEN j < k ELSE j > k}}

\* TensorView::reorder(m): the axes named by m go to their new positions
\* and the others fill the positions left, in their order.
reorder(tv, m) ==
    LET d == tv.domain
        n == Len(d)
        norm(x) == IF x < 0 THEN x + n ELSE x
        olds == {norm(q[1]) : q \in m}
        news == {norm(q[2]) : q \in m}
        valid ==
            /\ olds \subseteq 0 .. n - 1
            /\ news \subseteq 0 .. n - 1
            /\ Cardinality(olds) = Cardinality(m)
            /\ Cardinality(news) = Cardinality(m)
        rest == (0 .. n - 1) \ olds
        free == (0 .. n - 1) \ news
        oldAt(pos) ==
            IF pos \in news
            THEN norm((CHOOSE q \in m : norm(q[2]) = pos)[1])
            ELSE CHOOSE u \in rest :
                     Cardinality({y \in rest : y < u})
                         = Cardinality({y \in free : y < pos})
    IN IF ~tv.ok THEN tv
       ELSE IF ~valid THEN throw(tv)
       ELSE [tv EXCEPT !.domain = [k \in 1 .. n |-> d[oldAt(k - 1) + 1]]]

RECURSIVE mergeSide(_, _, _, _)
\* One of the two loops that merge the axes of a side of the break point:
\* i runs down to stop, side_i is rhs_i or lhs_i.
mergeSide(tv, i, stop, side_i) ==
    IF i <= stop THEN [tv |-> tv, side_i |-> side_i]
    ELSE LET axis_i == i - 1
         IN IF tv.domain[axis_i + 1].kind = "bcast"
            THEN mergeSide(tv, i - 1, stop, side_i)
            ELSE IF side_i = -1
            THEN mergeSide(tv, i - 1, stop, axis_i)
            ELSE mergeSide(merge(tv, axis_i, side_i), i - 1, stop, axis_i)

\* "Merge right side of break point", and the move of the merged axis to
\* the innermost position.
mergeRight(tv, params) ==
    LET merged == mergeSide(tv, Len(tv.domain), params.break_point, -1)
        rhs_i == merged.side_i
    IN [tv |-> IF rhs_i >= 0 THEN reorder(merged.tv, {<<rhs_i, -1>>}) ELSE merged.tv,
        side_i |-> rhs_i]

\* "Merge left side of break point", and the order [lhs_i, rhs_i,
\* unmerged...].
mergeLeft(tv, params, keeps) ==
    LET merged == mergeSide(tv, params.break_point, 0, -1)
        lhs_i == merged.side_i
    IN [tv |-> reorder(merged.tv, old2new(<<<<lhs_i, 0>>, <<-1, 1>>>>, keeps)),
        side_i |-> lhs_i]

\* The 1D scheduler.
schedule1D(tv, params, rhs_i, lhs_i) ==
    LET moved == reorder(tv, {<<-1, 0>>})
        vectorized ==
            parallelize(
                parallelize(
                    parallelize(
                        parallelize(
                            split(split(split(moved, 0, Factor(params.inner_factor)),
                                        0, Factor(1)),
                                  0, Factor(kThreadX)),
                            0, "BIDx"),
                        1, "TIDx"),
                    2, "Unswitch"),
                -1, "Vectorize")
        unrolled ==
            parallelize(
                parallelize(
                    parallelize(
                        split(split(split(moved, 0, Factor(kThreadX)),
                                    0, Factor(params.inner_factor)),
                              0, Factor(1)),
                        0, "BIDx"),
                    1, "Unswitch"),
                3, "TIDx")
    IN IF ~tv.ok THEN tv
       ELSE IF ~(rhs_i >= 0 /\ lhs_i = -1) THEN throw(tv)
       ELSE IF params.vectorize
       THEN reorder(vectorized, {<<1, 3>>, <<2, 1>>, <<3, 2>>})
       ELSE unrolled

\* The binding of the grid and of TIDy at the end of the 2D scheme.
bindOuter(tv, params) ==
    IF params.split_block
    THEN parallelize(
             parallelize(split(tv, 1, getParallelDim("TIDy")), 1, "BIDx"),
             2, "TIDy")
    ELSE LET bound == parallelize(tv, 1, "BIDx")
         IN IF params.split_grid_y_dim
            THEN parallelize(split(bound, 0, Factor(65535)), 1, "BIDy")
            ELSE parallelize(bound, 0, "BIDy")

\* The 2D parallelization scheme.
schedule2D(tv, params, rhs_i, lhs_i) ==
    LET vectorized ==
            reorder(
                parallelize(
                    parallelize(
                        parallelize(
                            split(split(split(tv, 1, Factor(params.inner_factor)),
                                        1, getParallelDim("TIDx")),
                                  0, Factor(1)),
                            1, "Unswitch"),
                        3, "TIDx"),
                    4, "Vectorize"),
                {<<1, 2>>, <<2, 1>>, <<3, 4>>, <<4, 3>>})
        unrolled ==
            parallelize(
                parallelize(
                    reorder(
                        split(split(split(tv, 1, getParallelDim("TIDx")),
                                    1, Factor(params.inner_factor)),
                              0, Factor(1)),
                        {<<1, 2>>}),
                    2, "Unswitch"),
                4, "TIDx")
        inner == IF params.vectorize THEN vectorized ELSE unrolled
    IN IF ~tv.ok THEN tv
       ELSE IF ~(rhs_i >= 0 /\ lhs_i >= 0) THEN throw(tv)
       ELSE bindOuter(reorder(inner, {<<1, 0>>}), params)

\* Root domains of the reference: iteration and broadcast axes, at least
\* one of them an iteration axis.
ReferenceDomains ==
    {[i \in DOMAIN kinds |-> RootAxis(kinds[i], i)] :
        kinds \in {ks \in UNION {[1 .. n -> {"iter", "bcast"}] : n \in 1 .. MaxRootDims} :
                      \E i \in DOMAIN ks : ks[i] = "iter"}}

\* The parameters schedulePointwise reads.
ScheduleParams(domain) ==
    [break_point : 0 .. Len(domain) - 1, vectorize : BOOLEAN,
     inner_factor : InnerFactors, split_block : BOOLEAN,
     split_grid_y_dim : BOOLEAN]

InitSchedule ==
    /\ parDim = NoParallelDimensions
    /\ NoLowering
    /\ calc = NoCall
    /\ pw = NoCall

\* schedulePointwise(fusion, params) has found its reference tensor.
SchedulePointwise ==
    /\ pw = NoCall
    /\ \E domain \in ReferenceDomains, keeps \in DuplicateKeys :
           \E params \in ScheduleParams(domain) :
               pw' = [fn |-> "schedulePointwise", params |-> params, keeps |-> keeps,
                      root |-> domain,
                      reference_tv |-> [domain |-> domain, ok |-> TRUE],
                      rhs_i |-> -1, lhs_i |-> -1, pc |-> "mergeRight"]
    /\ UNCHANGED <<parDim, calc, lowering>>

MergeRight ==
    /\ pw.fn = "schedulePointwise"
    /\ pw.pc = "mergeRight"
    /\ LET right == mergeRight(pw.reference_tv, pw.params)
       IN pw' = [pw EXCEPT !.reference_tv = right.tv, !.rhs_i = right.side_i,
                           !.pc = "mergeLeft"]
    /\ UNCHANGED <<parDim, calc, lowering>>

MergeLeft ==
    /\ pw.fn = "schedulePointwise"
    /\ pw.pc = "mergeLeft"
    /\ LET left == mergeLeft(pw.reference_tv, pw.params, pw.keeps)
       IN pw' = [pw EXCEPT !.reference_tv = left.tv, !.lhs_i = left.side_i,
                           !.pc = IF left.tv.ok THEN "schedule" ELSE "throw"]
    /\ UNCHANGED <<parDim, calc, lowering>>

Schedule2D ==
    /\ pw.fn = "schedulePointwise"
    /\ pw.pc = "schedule"
    /\ pw.params.break_point # 0
    /\ LET tv == schedule2D(pw.reference_tv, pw.params, pw.rhs_i, pw.lhs_i)
       IN pw' = [pw EXCEPT !.reference_tv = tv,
                           !.pc = IF tv.ok THEN "scheduled" ELSE "throw"]
    /\ UNCHANGED <<parDim, calc, lowering>>

Schedule1D ==
    /\ pw.fn = "schedulePointwise"
    /\ pw.pc = "schedule"
    /\ pw.params.break_point = 0
    /\ LET tv == schedule1D(pw.reference_tv, pw.params, pw.rhs_i, pw.lhs_i)
       IN pw' = [pw EXCEPT !.reference_tv = tv,
                           !.pc = IF tv.ok THEN "scheduled" ELSE "throw"]
    /\ UNCHANGED <<parDim, calc, lowering>>

NextSchedule ==
    \/ SchedulePointwise
    \/ MergeRight
    \/ MergeLeft
    \/ Schedule2D
    \/ Schedule1D

SpecSchedule == InitSchedule /\ [][NextSchedule]_vars

\* --------------------------------------------------------- properties

ReductionKinds == {"ReductionOp", "GroupedReductionOp", "WelfordOp"}

GridKinds == {"GridReduction", "GroupedGridReduction", "GridWelford"}

\* What the expression handled last has appended to the scope that was
\* active when it was dispatched.
Appended ==
    LET b == scopeBody(last.scope) IN SubSeq(b, last.pos + 1, Len(b))

AppendedKinds == [i \in DOMAIN Appended |-> exprs[Appended[i]].kind]

\* The nodes the expression handled last has created.
Created == last.arena + 1 .. Len(exprs)

\* The top-level list has grown by k entries.
TopLevelGrownBy(k) == Len(lowered_exprs_) = last.top + k

\* C3: a ReductionOp is lowered by exactly one strategy, decided by its
\* output domain: the grid path whenever the domain has a grid reduction
\* (a block reduction besides it changes nothing), else one block-scoped
\* ReductionOp with the source's predicate and write-predicate, else one
\* BinaryOp out = op(out, in); the last two append exactly one node and
\* create no Allocate.
C3_ReductionOpStrategy ==
    last.src.kind = "ReductionOp" =>
        LET td == last.src.td
            e == exprs[Appended[1]]
            one == /\ ~aborted
                   /\ Len(Appended) = 1
                   /\ Created = {Appended[1]}
                   /\ TopLevelGrownBy(IF last.scope = NullScope THEN 1 ELSE 0)
        IN /\ hasGridReduction(td) =>
                \/ aborted /\ Created = {}
                \/ /\ Cardinality({i \in DOMAIN Appended :
                                      AppendedKinds[i] = "GridReduction"}) = 1
                   /\ \A i \in DOMAIN Appended :
                          AppendedKinds[i] \notin {"ReductionOp", "BinaryOp"}
           /\ (~hasGridReduction(td) /\ hasBlockReduction(td)) =>
                /\ one
                /\ e.kind = "ReductionOp"
                /\ e.op = last.src.op
                /\ e.pred = last.src.pred
                /\ e.wpred = last.src.wpred
           /\ (~hasGridReduction(td) /\ ~hasBlockReduction(td)) =>
                /\ one
                /\ e.kind = "BinaryOp"
                /\ e.op = last.src.op
                /\ e.args = <<"out", "out", "in">>

\* A ReductionOp whose domain has a grid and a block reduction has been
\* lowered to a GridReduction.
C3_Witness ==
    /\ last.src.kind = "ReductionOp"
    /\ hasGridReduction(last.src.td)
    /\ hasBlockReduction(last.src.td)
    /\ ~aborted
    /\ \E i \in DOMAIN Appended : AppendedKinds[i] = "GridReduction"

\* rb, sb and gr are the work buffer, the sync buffer and the GridReduction
\* of the ReductionOp handled last.
IsGridReductionOf(rb, sb, gr) ==
    /\ exprs[rb].kind = "Allocate" /\ ~exprs[rb].zero_init
    /\ exprs[rb].dtype = last.src.dtype
    /\ exprs[sb].kind = "Allocate" /\ exprs[sb].zero_init
    /\ exprs[sb].dtype = "Int"
    /\ exprs[gr].kind = "GridReduction"
    /\ exprs[gr].bufs = <<rb>>
    /\ exprs[gr].sync = sb
    /\ exprs[gr].pred = last.src.pred
    /\ exprs[gr].wpred = last.src.wpred

\* The bodies (other than the scope the last expression was dispatched in)
\* hold none of the nodes it created.
CreatedOnlyInItsScope ==
    \A n \in DOMAIN exprs : \A b \in {"body", "elseBody"} :
        <<n, b>> # last.scope => Range(exprs[n][b]) \cap Created = {}

GridReductionLowered ==
    /\ last.src.kind = "ReductionOp"
    /\ hasGridReduction(last.src.td)
    /\ ~aborted

\* C4 as the spec states it: the scope the grid ReductionOp was dispatched
\* in ends with exactly the work-buffer Allocate, the sync-buffer Allocate
\* and the GridReduction, next to each other in this order.
C4_Contiguous ==
    GridReductionLowered =>
        /\ Len(Appended) = 3
        /\ IsGridReductionOf(Appended[1], Appended[2], Appended[3])

\* C4: a grid ReductionOp appends to the scope it was dispatched in the
\* work-buffer Allocate, the sync-buffer Allocate and one GridReduction that
\* references both and carries the source's predicates, in this order and
\* in no other scope; they are next to each other except for an allreduce
\* dispatched at top level, where the AllocateFusedReduction of the node
\* stands between the sync buffer and the GridReduction.
C4_AllocationsThenGridReduction ==
    GridReductionLowered =>
        LET hoisted_here == last.src.allreduce /\ last.scope = NullScope
            gr == Appended[Len(Appended)]
        IN /\ Len(Appended) = IF hoisted_here THEN 4 ELSE 3
           /\ IsGridReductionOf(Appended[1], Appended[2], gr)
           /\ hoisted_here =>
                /\ exprs[Appended[3]].kind = "AllocateFusedReduction"
                /\ exprs[Appended[3]].of = gr
           /\ Cardinality({c \in Created : exprs[c].kind = "GridReduction"}) = 1
           /\ Cardinality({c \in Created : exprs[c].kind = "Allocate"}) = 2
           /\ CreatedOnlyInItsScope

\* A grid ReductionOp with a predicate and a write-predicate has been
\* lowered inside a ForLoop body.
C4_Witness ==
    /\ GridReductionLowered
    /\ last.scope # NullScope
    /\ exprs[last.scope[1]].kind = "ForLoop"
    /\ last.src.pred # "none"
    /\ last.src.wpred # "none"
    /\ Len(Appended) = 3

\* ---- C5

AllocateFusedReductions ==
    {a \in DOMAIN exprs : exprs[a].kind = "AllocateFusedReduction"}

GridNodes == {g \in DOMAIN exprs : exprs[g].kind \in GridKinds}

InSomeBody(e) ==
    \E n \in DOMAIN exprs : e \in Range(exprs[n].body) \cup Range(exprs[n].elseBody)

TopPositions(e) == {i \in DOMAIN lowered_exprs_ : lowered_exprs_[i] = e}

RECURSIVE Contains(_, _)
\* e is g or holds g in a body, at any depth.
Contains(e, g) ==
    \/ e = g
    \/ \E c \in Range(exprs[e].body) \cup Range(exprs[e].elseBody) : Contains(c, g)

\* C5: every grid node (GridReduction, GroupedGridReduction, GridWelford)
\* of an allreduce has exactly one AllocateFusedReduction; it stands once in
\* the top-level list, before the top-level expression that is or contains
\* the grid node, and in no ForLoop or IfThenElse body; a grid node that is
\* not an allreduce has none.
C5_FusedReductionHoisted ==
    /\ \A g \in GridNodes \cap Created :
           exprs[g].allreduce = last.src.allreduce
    /\ \A g \in GridNodes :
           LET allocs == {a \in AllocateFusedReductions : exprs[a].of = g}
           IN IF exprs[g].allreduce
              THEN /\ Cardinality(allocs) = 1
                   /\ \A a \in allocs :
                        /\ ~InSomeBody(a)
                        /\ Cardinality(TopPositions(a)) = 1
                        /\ \E i \in TopPositions(a) :
                             \E j \in DOMAIN lowered_exprs_ :
                                i < j /\ Contains(lowered_exprs_[j], g)
              ELSE allocs = {}

\* An allreduce has been lowered to a grid node two scopes deep, and its
\* AllocateFusedReduction stands in the top-level list.
C5_Witness ==
    /\ last.src.kind \in ReductionKinds
    /\ last.src.allreduce
    /\ Len(stack) = 2
    /\ \E g \in GridNodes \cap Created :
          \E a \in AllocateFusedReductions :
              exprs[a].of = g /\ TopPositions(a) # {}

\* ---- C2

\* td has a reduction axis bound to no thread or block parallel type.
HasSerialReduction(td) ==
    \E i \in DOMAIN td : td[i].reduction /\ ~isThread(td[i])

\* td has such an axis whose extent is not one.
HasSerialReductionBeyondOne(td) ==
    \E i \in DOMAIN td : td[i].reduction /\ ~isThread(td[i]) /\ td[i].extent # 1

EntranceLoops(loops) == {k \in DOMAIN loops : isEntranceLoop(loops[k])}

RECURSIVE ExtentProduct(_, _)
\* The product of the extents of the loops at the positions S.
ExtentProduct(loops, S) ==
    IF S = {} THEN 1
    ELSE LET k == CHOOSE x \in S : TRUE
         IN loops[k].extent * ExtentProduct(loops, S \ {k})

RECURSIVE RowMajorSum(_, _, _)
\* The row-major linearization of the indices a of the entrance loops: each
\* index times the product of the extents of the entrance loops inside it.
RowMajorSum(loops, a, S) ==
    IF S = {} THEN 0
    ELSE LET k == CHOOSE x \in S : TRUE
         IN a[k] * ExtentProduct(loops, {j \in EntranceLoops(loops) : j > k})
            + RowMajorSum(loops, a, S \ {k})

RowMajor(loops, a) == RowMajorSum(loops, a, EntranceLoops(loops))

RECURSIVE DimProduct(_)
\* The product of the parallel dimensions S.
DimProduct(S) ==
    IF S = {} THEN 1
    ELSE LET pt == CHOOSE x \in S : TRUE
         IN parDim[pt] * DimProduct(S \ {pt})

\* The parallel dimensions that are present with an extent other than one.
PresentDims(pts) == {pt \in Range(pts) : parDim[pt] # 0 /\ parDim[pt] # 1}

GridReductionOrWelfordLowered ==
    /\ last.src.kind \in {"ReductionOp", "WelfordOp"}
    /\ hasGridReduction(last.src.td)
    /\ ~aborted

\* The grid node the expression handled last has created.
CreatedGridNode == exprs[CHOOSE g \in Created : exprs[g].kind \in GridKinds]

\* C10: for a grid ReductionOp or WelfordOp that is not an allreduce, the
\* entrance count is the product of the extents of the enclosing loops that
\* are neither trivial nor thread-bound, and the entrance index is the
\* row-major linearization of those loops' indices; for an allreduce the
\* entrance index is 0, the entrance count is 1, and the sizes of the work
\* buffers and of the sync buffer hold no loop extent.
C10_Entrances ==
    GridReductionOrWelfordLowered =>
        LET g == CreatedGridNode
            loops == last.loops
            td == last.src.td
        IN /\ DOMAIN g.entrance_ind = Assignments(loops)
           /\ IF ~last.src.allreduce
              THEN /\ g.n_entrances = ExtentProduct(loops, EntranceLoops(loops))
                   /\ \A a \in Assignments(loops) :
                          g.entrance_ind[a] = RowMajor(loops, a)
              ELSE /\ g.n_entrances = 1
                   /\ \A a \in Assignments(loops) : g.entrance_ind[a] = 0
                   /\ \A b \in Range(g.bufs) :
                          exprs[b].size \in
                              {f * DimProduct(
                                      {pt \in PresentDims(kParallelTypeThreads) :
                                          ~(isParallelTypeThreadDim(pt)
                                            /\ boundToReductionOrBroadcast(td, pt))}) :
                               f \in {1, 2}}
                   /\ exprs[g.sync].size =
                          DimProduct({pt \in PresentDims(kParallelTypeBIDs) :
                                         ~boundToReductionOrBroadcast(td, pt)})

\* A grid ReductionOp that is not an allreduce has been lowered inside two
\* nested entrance loops of different extents.
C10_Witness ==
    /\ GridReductionOrWelfordLowered
    /\ ~last.src.allreduce
    /\ Cardinality(EntranceLoops(last.loops)) = 2
    /\ last.loops[1].extent # last.loops[2].extent
    /\ CreatedGridNode.n_entrances = 6

\* ---- C8

GridBuffersSized == calc.fn = "gridBufferSizes"

\* The expansion factor is 2 exactly for an allreduce whose output domain
\* has a non-trivial axis, else 1.
ExpansionFactorOfAllreduce ==
    /\ calc.expansion_factor \in {1, 2}
    /\ calc.expansion_factor = 2 <=>
           (calc.allreduce /\ \E i \in DOMAIN calc.td : ~calc.td[i].trivial)

\* The work-buffer size is the expansion factor, times the parallel
\* dimensions present with an extent other than one and not bound to a
\* reduction or broadcast axis of the output domain, times the extents of the
\* loops that are neither trivial nor thread-bound.
C8_NoBoundDimension ==
    GridBuffersSized =>
        /\ calc.work =
               calc.expansion_factor
               * DimProduct({pt \in PresentDims(kParallelTypeThreads) :
                                ~boundToReductionOrBroadcast(calc.td, pt)})
               * ExtentProduct(calc.for_loops, EntranceLoops(calc.for_loops))
        /\ ExpansionFactorOfAllreduce

\* C8: getGridCommWorkBufferSize returns the expansion factor, times every
\* block (BID) dimension present with an extent other than one, bound to a
\* reduction or broadcast axis or not, times every thread (TID) dimension
\* present with an extent other than one and not bound to a reduction or
\* broadcast axis of the output domain, times the extent of every loop that
\* is neither trivial nor thread-bound; the expansion factor is 2 exactly
\* for an allreduce whose output domain has a non-trivial axis, else 1.
C8_WorkBufferSize ==
    GridBuffersSized =>
        /\ calc.work =
               calc.expansion_factor
               * DimProduct(PresentDims(kParallelTypeBIDs))
               * DimProduct({pt \in PresentDims(kParallelTypeTIDs) :
                                ~boundToReductionOrBroadcast(calc.td, pt)})
               * ExtentProduct(calc.for_loops, EntranceLoops(calc.for_loops))
        /\ ExpansionFactorOfAllreduce

\* The buffers are sized for a domain with a reduction axis bound to a block
\* dimension and one bound to a thread dimension, both of extent above one,
\* within an entrance loop.
C8_Witness ==
    /\ GridBuffersSized
    /\ \E pt \in PresentDims(kParallelTypeBIDs) :
           boundToReductionOrBroadcast(calc.td, pt)
    /\ \E pt \in PresentDims(kParallelTypeTIDs) :
           boundToReductionOrBroadcast(calc.td, pt)
    /\ EntranceLoops(calc.for_loops) # {}
    /\ calc.work > 1

\* ---- C9

\* C9: getGridSyncBufferSize returns the product of the block (BID)
\* dimensions present with an extent other than one and not bound to a
\* reduction or broadcast axis of the output domain, times the extent of
\* every loop that is neither trivial nor thread-bound; no thread dimension
\* and no expansion factor contributes, and the size never exceeds the
\* work-buffer size for the same domain and loops.
C9_SyncBufferSize ==
    GridBuffersSized =>
        /\ calc.sync =
               DimProduct({pt \in PresentDims(kParallelTypeBIDs) :
                              ~boundToReductionOrBroadcast(calc.td, pt)})
               * ExtentProduct(calc.for_loops, EntranceLoops(calc.for_loops))
        /\ calc.sync <= calc.work

\* The buffers are sized for an allreduce in a kernel with block and thread
\* dimensions that no reduction axis binds, within an entrance loop: the
\* sync buffer is the smaller one.
C9_Witness ==
    /\ GridBuffersSized
    /\ \E pt \in PresentDims(kParallelTypeBIDs) :
           ~boundToReductionOrBroadcast(calc.td, pt)
    /\ \E pt \in PresentDims(kParallelTypeTIDs) :
           ~boundToReductionOrBroadcast(calc.td, pt)
    /\ EntranceLoops(calc.for_loops) # {}
    /\ calc.sync > 1
    /\ calc.sync < calc.work

\* ---- C6

SumLowered == calc.fn = "sum" /\ calc.sizes # NoCall

SumLoweredTwice == SumLowered /\ calc.half # NoCall

\* The work buffer of the sum has one element per block, and twice the
\* elements for a tensor of twice the size.
C6_WorkBufferDoubles ==
    SumLowered =>
        /\ calc.sizes.work = ceilDiv(calc.nx, tidx)
        /\ calc.half # NoCall => calc.sizes.work = 2 * calc.half.work

\* C6: the work buffer of a sum over nx elements, scheduled as BIDx over
\* ceil(nx / 128) blocks and TIDx over 128 threads, has one element per
\* block; for twice the elements the count is twice as large exactly when
\* nx modulo 128 is 0 or above 64.
C6_WorkBufferPerBlock ==
    SumLowered =>
        /\ calc.sizes.work = ceilDiv(calc.nx, tidx)
        /\ calc.half # NoCall =>
               (calc.sizes.work = 2 * calc.half.work
                    <=> (calc.half.nx % tidx = 0 \/ 2 * (calc.half.nx % tidx) > tidx))

\* The sum over 129 elements takes two blocks, the sum over 258 elements
\* three.
C6_Witness ==
    /\ SumLoweredTwice
    /\ calc.half.nx = tidx + 1
    /\ calc.half.work = 2
    /\ calc.sizes.work = 3

\* ---- C7

\* The sync buffer of the sum has one element per block, as many as the
\* work buffer, and twice the elements for a tensor of twice the size.
C7_SyncBufferDoubles ==
    SumLowered =>
        /\ calc.sizes.sync = ceilDiv(calc.nx, tidx)
        /\ calc.sizes.sync = calc.sizes.work
        /\ calc.half # NoCall => calc.sizes.sync = 2 * calc.half.sync

\* C7: the sync buffer of a sum over nx elements, scheduled as BIDx over
\* ceil(nx / 128) blocks and TIDx over 128 threads, has one element whatever
\* nx is, as BIDx is bound to a reduction axis: it equals the work-buffer
\* count only when there is one block, and is the same for twice the
\* elements.
C7_SyncBufferIsOne ==
    SumLowered =>
        /\ calc.sizes.sync = 1
        /\ calc.sizes.sync = calc.sizes.work <=> calc.nx <= tidx
        /\ calc.half # NoCall => calc.sizes.sync = calc.half.sync

\* The sum is lowered over two blocks and then over four: the work buffer
\* has four elements, the sync buffer one.
C7_Witness ==
    /\ SumLoweredTwice
    /\ calc.half.work = 2
    /\ calc.sizes.work = 4
    /\ calc.sizes.sync = 1
    /\ calc.half.sync = 1

\* ---- C1

PointwiseParamsReturned ==
    /\ pw.fn = "getPointwiseHeuristics"
    /\ pw.out.status \in {"params", "default"}

\* C1: whenever getPointwiseHeuristics returns parameters, the bdimy and
\* gdimy it has computed are not both above 1: split_block holds exactly
\* when bdimy is above 1, and it never holds together with a gdimy above 1
\* nor with split_grid_y_dim.
C1_BlockAndGridSplitExclusive ==
    PointwiseParamsReturned =>
        /\ ~(pw.out.params.split_block /\ pw.out.params.split_grid_y_dim)
        /\ pw.out.status = "params" =>
               /\ ~(pw.out.bdimy > 1 /\ pw.out.gdimy > 1)
               /\ pw.out.params.split_block <=> pw.out.bdimy > 1
               /\ pw.out.params.split_grid_y_dim => pw.out.gdimy > 1
               /\ ~(pw.out.params.split_block /\ pw.out.gdimy > 1)

\* Parameters are returned for a break point whose right side takes more
\* blocks than a grid holds along y: the grid is split along y and the
\* block is not split.
C1_Witness ==
    /\ PointwiseParamsReturned
    /\ pw.out.status = "params"
    /\ pw.out.break_point = 1
    /\ pw.out.gdimy > 65535
    /\ pw.out.params.split_grid_y_dim
    /\ pw.out.bdimy = 1
    /\ ~pw.out.params.split_block

\* ---- C11

GridReductionPrivatized == GridReductionOrWelfordLowered /\ ~last.src.allreduce

\* C11: for a grid reduction that is not an allreduce, within any stack of
\* loops, the entrance index lies in [0, entrance count) under every
\* assignment of the loop indices, assignments that differ in the index of a
\* loop that is neither trivial nor thread-bound give different entrance
\* indices, and the work buffers and the sync buffer hold the entrance count
\* times the parallel-dimension product of one entrance.
C11_EntrancesDisjoint ==
    GridReductionPrivatized =>
        LET g == CreatedGridNode
            loops == last.loops
            td == last.src.td
        IN /\ \A a \in Assignments(loops) :
                  g.entrance_ind[a] >= 0 /\ g.entrance_ind[a] < g.n_entrances
           /\ \A a, b \in Assignments(loops) :
                  (\E k \in EntranceLoops(loops) : a[k] # b[k])
                      => g.entrance_ind[a] # g.entrance_ind[b]
           /\ \A b \in Range(g.bufs) :
                  exprs[b].size =
                      g.n_entrances
                      * DimProduct({pt \in PresentDims(kParallelTypeThreads) :
                                       ~(isParallelTypeThreadDim(pt)
                                         /\ boundToReductionOrBroadcast(td, pt))})
           /\ exprs[g.sync].size =
                  g.n_entrances
                  * DimProduct({pt \in PresentDims(kParallelTypeBIDs) :
                                   ~boundToReductionOrBroadcast(td, pt)})

\* A grid reduction that is not an allreduce has been lowered inside two
\* nested serial loops: it has six entrances and a work buffer of as many
\* slots per block.
C11_Witness ==
    /\ GridReductionPrivatized
    /\ Len(last.loops) = 2
    /\ Cardinality(EntranceLoops(last.loops)) = 2
    /\ CreatedGridNode.n_entrances = 6
    /\ \E a \in Assignments(last.loops) : CreatedGridNode.entrance_ind[a] = 5
    /\ \A b \in Range(CreatedGridNode.bufs) : exprs[b].size > 6

\* ---- C12

GroupedGridReductionLowered ==
    /\ last.src.kind = "GroupedReductionOp"
    /\ hasGridReduction(last.src.td)
    /\ ~aborted

\* C12: a GroupedReductionOp of n reductions whose output domain has a grid
\* reduction appends to the scope it was dispatched in n work-buffer
\* Allocates, one per output in output order and of that output's data type,
\* then one sync-buffer Allocate, then one GroupedGridReduction that
\* references the n work buffers and the sync buffer; it creates no
\* GridReduction and no other Allocate.
C12_GroupedGridReduction ==
    GroupedGridReductionLowered =>
        LET n == last.src.n
            hoisted_here == last.src.allreduce /\ last.scope = NullScope
            sb == Appended[n + 1]
            gr == Appended[Len(Appended)]
        IN /\ Len(Appended) = IF hoisted_here THEN n + 3 ELSE n + 2
           /\ \A i \in 1 .. n :
                  /\ exprs[Appended[i]].kind = "Allocate"
                  /\ ~exprs[Appended[i]].zero_init
                  /\ exprs[Appended[i]].idx = i
                  /\ exprs[Appended[i]].dtype = last.src.dtypes[i]
           /\ exprs[sb].kind = "Allocate"
           /\ exprs[sb].zero_init
           /\ exprs[sb].dtype = "Int"
           /\ exprs[gr].kind = "GroupedGridReduction"
           /\ exprs[gr].bufs = SubSeq(Appended, 1, n)
           /\ exprs[gr].sync = sb
           /\ Cardinality({c \in Created : exprs[c].kind = "Allocate"}) = n + 1
           /\ Cardinality({c \in Created :
                              exprs[c].kind = "GroupedGridReduction"}) = 1
           /\ {c \in Created : exprs[c].kind = "GridReduction"} = {}
           /\ CreatedOnlyInItsScope

\* A GroupedReductionOp of two reductions with outputs of different data
\* types has been lowered to a GroupedGridReduction inside a ForLoop body.
C12_Witness ==
    /\ GroupedGridReductionLowered
    /\ last.src.n = 2
    /\ last.src.dtypes[1] # last.src.dtypes[2]
    /\ last.scope # NullScope
    /\ Len(last.loops) > 0
    /\ exprs[Appended[Len(Appended)]].kind = "GroupedGridReduction"
    /\ Len(exprs[Appended[Len(Appended)]].bufs) = 2

\* ---- C13

\* C13: a GroupedReductionOp is classified as a ReductionOp is, grid before
\* block-only before serial, and on the grid path each of its work buffers
\* and its sync buffer have the sizes the grid path of a single ReductionOp
\* computes for the same output domain, enclosing loops and allreduce flag,
\* an allreduce leaving the extents of the enclosing loops out of both.
C13_GroupedSizesAsSingle ==
    (last.src.kind = "GroupedReductionOp" /\ ~aborted) =>
        LET td == last.src.td
            single == gridBufferSizes(td, last.loops, last.src.allreduce)
            grouped == {c \in Created : exprs[c].kind = "GroupedGridReduction"}
        IN /\ hasGridReduction(td) <=> grouped # {}
           /\ (~hasGridReduction(td) /\ hasBlockReduction(td)) <=>
                  AppendedKinds = <<"GroupedReductionOp">>
           /\ (~hasGridReduction(td) /\ ~hasBlockReduction(td)) <=>
                  AppendedKinds = [i \in 1 .. last.src.n |-> "BinaryOp"]
           /\ \A g \in grouped :
                  /\ \A b \in Range(exprs[g].bufs) : exprs[b].size = single.work
                  /\ exprs[exprs[g].sync].size = single.sync

\* ---- C14

WelfordLowered == last.src.kind = "WelfordOp" /\ ~aborted

\* The work buffers and the sync buffer of the GridWelford gw are the four
\* Allocates a, b, c and sb: var, avg and count in this order and of one
\* size, then a zero-initialised sync buffer.
IsGridWelfordOf(a, b, c, sb, gw) ==
    /\ \A x \in {a, b, c} :
           /\ exprs[x].kind = "Allocate"
           /\ ~exprs[x].zero_init
           /\ exprs[x].size = exprs[a].size
    /\ exprs[a].args = <<"outVar">>
    /\ exprs[b].args = <<"outAvg">>
    /\ exprs[c].args = <<"outN">>
    /\ exprs[sb].kind = "Allocate"
    /\ exprs[sb].zero_init
    /\ exprs[sb].dtype = "Int"
    /\ exprs[gw].kind = "GridWelford"
    /\ exprs[gw].bufs = <<a, b, c>>
    /\ exprs[gw].sync = sb

\* C14: a WelfordOp whose output domain has a grid reduction appends to the
\* scope it was dispatched in three work-buffer Allocates of one size, for
\* var, avg and count, then one sync-buffer Allocate, then one GridWelford
\* that references the four; the indexed WelfordOp is appended before them
\* exactly when the domain also has a block reduction and the op is not an
\* allreduce, and in no other grid case. Without a grid reduction exactly
\* one indexed WelfordOp is appended and no Allocate is created.
C14_WelfordLowering ==
    WelfordLowered =>
        LET td == last.src.td
            separated == hasBlockReduction(td) /\ ~last.src.allreduce
            hoisted_here == last.src.allreduce /\ last.scope = NullScope
            k == IF separated THEN 1 ELSE 0
            welfords == {i \in DOMAIN Appended : AppendedKinds[i] = "WelfordOp"}
            allocates == {c \in Created : exprs[c].kind = "Allocate"}
            gw == Appended[Len(Appended)]
        IN IF hasGridReduction(td)
           THEN /\ Len(Appended) = k + (IF hoisted_here THEN 6 ELSE 5)
                /\ welfords = 1 .. k
                /\ separated => exprs[gw].of = Appended[1]
                /\ IsGridWelfordOf(Appended[k + 1], Appended[k + 2],
                                   Appended[k + 3], Appended[k + 4], gw)
                /\ Cardinality({c \in Created : exprs[c].kind = "GridWelford"}) = 1
                /\ Cardinality(allocates) = 4
                /\ CreatedOnlyInItsScope
           ELSE /\ AppendedKinds = <<"WelfordOp">>
                /\ Created = {Appended[1]}
                /\ allocates = {}

\* A grid welford with a block reduction, not an allreduce, inside a loop:
\* the WelfordOp, four Allocates and the GridWelford.
C14_Witness ==
    /\ WelfordLowered
    /\ hasGridReduction(last.src.td)
    /\ hasBlockReduction(last.src.td)
    /\ ~last.src.allreduce
    /\ Len(last.loops) > 0
    /\ AppendedKinds = <<"WelfordOp", "Allocate", "Allocate", "Allocate",
                         "Allocate", "GridWelford">>

\* ---- C15

\* A predicated grid welford whose block-level WelfordOp is emitted apart.
SeparatedWelfordLowered ==
    /\ WelfordLowered
    /\ hasGridReduction(last.src.td)
    /\ hasBlockReduction(last.src.td)
    /\ ~last.src.allreduce
    /\ last.src.pred # "none"

\* C15 as the spec states it: the block-level WelfordOp emitted apart has
\* the always-true predicate and the GridWelford has the predicate of the
\* source op.
C15_BlockCopyAlwaysTrue ==
    SeparatedWelfordLowered =>
        /\ exprs[Appended[1]].pred = TruePredicate
        /\ exprs[Appended[Len(Appended)]].pred = last.src.pred

\* C15: when the block-level WelfordOp of a predicated grid welford is
\* emitted apart, it keeps the predicate of the source op and the
\* GridWelford has the always-true predicate; both carry the source's write
\* predicate. A predicated grid welford whose WelfordOp is not emitted apart
\* has the source's predicate on the GridWelford.
C15_GridStageAlwaysTrue ==
    (WelfordLowered /\ hasGridReduction(last.src.td) /\ last.src.pred # "none") =>
        LET gw == exprs[Appended[Len(Appended)]]
            bw == exprs[Appended[1]]
        IN /\ gw.kind = "GridWelford"
           /\ gw.wpred = last.src.wpred
           /\ exprs[gw.of].pred = last.src.pred
           /\ IF SeparatedWelfordLowered
              THEN /\ bw.kind = "WelfordOp"
                   /\ bw.pred = last.src.pred
                   /\ bw.wpred = last.src.wpred
                   /\ gw.pred = TruePredicate
              ELSE gw.pred = last.src.pred

\* A predicated grid welford emitted in two stages, with a write predicate.
C15_Witness ==
    /\ SeparatedWelfordLowered
    /\ last.src.wpred # "none"
    /\ exprs[Appended[1]].kind = "WelfordOp"
    /\ exprs[Appended[Len(Appended)]].kind = "GridWelford"
    /\ exprs[Appended[Len(Appended)]].pred = TruePredicate

\* ---- C16

BroadcastLowered == last.src.kind = "BroadcastOp" /\ ~aborted

\* The nodes some body or the top-level list holds.
Emitted ==
    Range(lowered_exprs_)
    \cup UNION {Range(exprs[n].body) \cup Range(exprs[n].elseBody) : n \in DOMAIN exprs}

\* C16: a BroadcastOp whose parallel broadcast domains hold BIDx, BIDy or
\* BIDz appends a work-buffer Allocate, a zero-initialised sync-buffer
\* Allocate and one GridBroadcast that wraps the indexed BroadcastOp and
\* references both buffers, in this order, and the BroadcastOp itself is in
\* no scope; any other BroadcastOp appends the indexed BroadcastOp alone and
\* creates no Allocate. So every BroadcastOp of a lowered kernel whose
\* parallel broadcast domains hold a block dimension is wrapped by one
\* GridBroadcast of the kernel and is in no scope itself.
C16_GridBroadcastWrapped ==
    /\ BroadcastLowered =>
           LET allocates == {c \in Created : exprs[c].kind = "Allocate"}
               gb == exprs[Appended[3]]
           IN IF \E pt \in {"BIDx", "BIDy", "BIDz"} : pt \in last.src.parallel_bitmap
              THEN /\ AppendedKinds = <<"Allocate", "Allocate", "GridBroadcast">>
                   /\ ~exprs[Appended[1]].zero_init
                   /\ exprs[Appended[2]].zero_init
                   /\ gb.bufs = <<Appended[1]>>
                   /\ gb.sync = Appended[2]
                   /\ exprs[gb.of].kind = "BroadcastOp"
                   /\ gb.of \in Created
                   /\ gb.pred = last.src.pred
                   /\ Cardinality(Created) = 4
              ELSE /\ AppendedKinds = <<"BroadcastOp">>
                   /\ Created = {Appended[1]}
                   /\ exprs[Appended[1]].pred = last.src.pred
    /\ \A b \in DOMAIN exprs :
           (/\ exprs[b].kind = "BroadcastOp"
            /\ \E pt \in {"BIDx", "BIDy", "BIDz"} : pt \in rdesc.parallel_bitmap) =>
               /\ b \notin Emitted
               /\ Cardinality({g \in Emitted : /\ exprs[g].kind = "GridBroadcast"
                                               /\ exprs[g].of = b}) = 1

\* A predicated broadcast over BIDz lowered inside a loop as a GridBroadcast.
C16_Witness ==
    /\ BroadcastLowered
    /\ last.src.parallel_bitmap = {"BIDz"}
    /\ last.src.pred # "none"
    /\ Len(last.loops) > 0
    /\ AppendedKinds = <<"Allocate", "Allocate", "GridBroadcast">>

\* ---- C18

\* One entry of a kernel written as a sequence: an expression, or the
\* beginning or the end of a body.
Entry(kind, op) == [kind |-> kind, op |-> op]

\* The source kernel traversed so far, written as a sequence.
SourceEntries == [i \in DOMAIN trace |-> Entry(trace[i].src.kind, trace[i].src.op)]

RECURSIVE Entries(_)
\* The lowered expressions es, written as a sequence in the same way.
Entries(es) ==
    IF es = <<>> THEN <<>>
    ELSE LET e == exprs[Head(es)]
             head ==
                 CASE e.kind = "ForLoop" ->
                          <<Entry("ForLoop", e.op)>> \o Entries(e.body)
                          \o <<Entry("ForLoopEnd", "none")>>
                   [] e.kind = "IfThenElse" ->
                          <<Entry("IfThenElse", e.op)>> \o Entries(e.body)
                          \o <<Entry("IfThenElseElse", "none")>> \o Entries(e.elseBody)
                          \o <<Entry("IfThenElseEnd", "none")>>
                   [] OTHER -> <<Entry(e.kind, e.op)>>
         IN head \o Entries(Tail(es))

RECURSIVE Unfinished(_)
\* The ends of the bodies that the handle calls in progress have not
\* reached yet, innermost first.
Unfinished(frames) ==
    IF frames = <<>> THEN <<>>
    ELSE LET f == frames[Len(frames)]
             ends ==
                 CASE f.kind = "ForLoop" -> <<Entry("ForLoopEnd", "none")>>
                   [] f.kind = "thenBody" ->
                          <<Entry("IfThenElseElse", "none"), Entry("IfThenElseEnd", "none")>>
                   [] OTHER -> <<Entry("IfThenElseEnd", "none")>>
         IN ends \o Unfinished(SubSeq(frames, 1, Len(frames) - 1))

\* The kinds of the expressions that are re-indexed only.
PlainKinds ==
    {"UnaryOp", "BinaryOp", "TernaryOp", "MmaOp", "ViewAsScalar", "BroadcastOp",
     "Allocate", "BlockSync", "GridSync"}

\* The source kernel holds plain expressions only, and its lowering has not
\* thrown.
PlainKernelLowered ==
    /\ ~aborted
    /\ \A i \in DOMAIN trace :
           /\ trace[i].src.kind \notin ReductionKinds
           /\ trace[i].src.kind = "BroadcastOp" =>
                  trace[i].src.parallel_bitmap \cap Range(kParallelTypeBIDs) = {}

\* The Allocate and sync nodes of the source kernel, in traversal order.
SourceNodes ==
    SelectSeq([i \in DOMAIN trace |->
                  IF trace[i].src.kind \in {"Allocate", "BlockSync", "GridSync"}
                  THEN trace[i].src.node ELSE Node],
              LAMBDA n : n # Node)

\* C18: a kernel of unary, binary, ternary, MMA and ViewAsScalar
\* expressions, plain broadcasts, ForLoops, IfThenElses, Allocates and syncs
\* is lowered to a kernel with the same expressions in the same bodies in
\* the same order, each of the kind and operator type of its source; no
\* node beyond one per source expression is created, and the Allocate and
\* sync nodes are those of the source.
C18_PlainKernelReindexed ==
    PlainKernelLowered =>
        /\ Entries(lowered_exprs_) = SourceEntries \o Unfinished(stack)
        /\ Len(exprs) =
               Cardinality({i \in DOMAIN trace :
                   trace[i].src.kind \in PlainKinds \cup {"ForLoop", "IfThenElse"}})
        /\ SelectSeq(exprs, LAMBDA e : e.kind \in {"Allocate", "BlockSync", "GridSync"})
               = SourceNodes

\* A kernel of three plain expressions, one of them inside a loop that has
\* been left.
C18_Witness ==
    /\ PlainKernelLowered
    /\ Len(trace) = 4
    /\ stack = <<>>
    /\ trace[1].src.kind = "ForLoop"
    /\ trace[2].src.kind = "ViewAsScalar"
    /\ trace[3].src.kind = "ForLoopEnd"
    /\ trace[4].src.kind = "UnaryOp"
    /\ trace[4].src.op = "neg"
    /\ Len(lowered_exprs_) = 2

\* ---- C19

\* The source expression the node n was created for: the last one
\* dispatched with fewer than n nodes in the arena.
origin(n) ==
    CHOOSE i \in DOMAIN trace :
        /\ trace[i].arena < n
        /\ \A j \in DOMAIN trace : trace[j].arena < n => j <= i

RECURSIVE OpenSourceScopes(_)
\* The bodies of the source kernel that are open after its first k entries,
\* outermost first, each named by the entry of its ForLoop or IfThenElse.
OpenSourceScopes(k) ==
    IF k = 0 THEN <<>>
    ELSE LET open == OpenSourceScopes(k - 1)
             kind == trace[k].src.kind
         IN CASE kind \in {"ForLoop", "IfThenElse"} -> Append(open, <<k, "body">>)
              [] kind = "IfThenElseElse" ->
                     [open EXCEPT ![Len(open)] = <<@[1], "elseBody">>]
              [] kind \in {"ForLoopEnd", "IfThenElseEnd"} ->
                     SubSeq(open, 1, Len(open) - 1)
              [] OTHER -> open

\* The body of the source kernel that holds its i-th entry.
sourceScope(i) ==
    LET open == OpenSourceScopes(i - 1)
    IN IF open = <<>> THEN <<0, "body">> ELSE open[Len(open)]

\* The scope of the lowered kernel that stands for a body of the source.
loweredFor(scope) ==
    IF scope[1] = 0 THEN NullScope ELSE <<trace[scope[1]].arena + 1, scope[2]>>

\* The scopes of the lowered kernel.
Scopes == {NullScope} \cup ((DOMAIN exprs) \X {"body", "elseBody"})

\* The places a node stands at: a scope and a position in it.
placesOf(n) ==
    {p \in UNION {{sc} \X (DOMAIN scopeBody(sc)) : sc \in Scopes} :
        scopeBody(p[1])[p[2]] = n}

\* C19: the bodies of the lowered kernel are those of the source. A source
\* ForLoop or IfThenElse creates exactly one node, of its kind; every node
\* stands at exactly one place, but for an indexed expression that only
\* its grid node holds; every node but an AllocateFusedReduction stands in
\* the scope that stands for the body its source expression is in,
\* then-body and else-body apart; and the nodes of a scope other than
\* AllocateFusedReductions are in the order of their source expressions.
\* An AllocateFusedReduction stands in the top-level list.
C19_ScopesMirrored ==
    /\ \A i \in DOMAIN trace :
           trace[i].src.kind \in {"ForLoop", "IfThenElse"} =>
               /\ exprs[trace[i].arena + 1].kind = trace[i].src.kind
               /\ \A n \in DOMAIN exprs : origin(n) = i => n = trace[i].arena + 1
    /\ \A n \in DOMAIN exprs :
           /\ Cardinality(placesOf(n)) <= 1
           /\ placesOf(n) = {} =>
                  \E g \in DOMAIN exprs :
                      exprs[g].kind \in GridKinds /\ exprs[g].of = n
           /\ \A p \in placesOf(n) :
                  p[1] = IF exprs[n].kind = "AllocateFusedReduction" THEN NullScope
                         ELSE loweredFor(sourceScope(origin(n)))
    /\ \A sc \in Scopes :
           LET body == scopeBody(sc)
           IN \A a, b \in DOMAIN body :
                  (/\ a < b
                   /\ exprs[body[a]].kind # "AllocateFusedReduction"
                   /\ exprs[body[b]].kind # "AllocateFusedReduction") =>
                      origin(body[a]) <= origin(body[b])

\* An allreduce lowered in the then-body of an IfThenElse inside a ForLoop:
\* its nodes are in the then-body, its AllocateFusedReduction is the first
\* of the top-level list.
C19_Witness ==
    /\ Len(trace) = 3
    /\ trace[1].src.kind = "ForLoop"
    /\ trace[2].src.kind = "IfThenElse"
    /\ trace[3].src.kind = "ReductionOp"
    /\ trace[3].src.allreduce
    /\ Len(lowered_exprs_) = 2
    /\ exprs[lowered_exprs_[1]].kind = "AllocateFusedReduction"
    /\ exprs[lowered_exprs_[2]].kind = "ForLoop"
    /\ Len(exprs[2].body) = 3
    /\ exprs[exprs[2].body[3]].kind = "GridReduction"

\* ---- C20

\* C20: the reference getPointwiseHeuristics selects is the first, in the
\* order of the fusion's outputs, of the outputs with the greatest number of
\* root axes that are neither reduction nor broadcast axes; the element
\* count the parameters are computed from is that of this output.
C20_ReferenceIsFirstLargest ==
    PointwiseParamsReturned =>
        LET out_tvs == pw.in.out_tvs
            ref == pw.out.reference
        IN /\ ref \in DOMAIN out_tvs
           /\ \A j \in DOMAIN out_tvs :
                  /\ nDims(out_tvs[j]) <= nDims(out_tvs[ref])
                  /\ j < ref => nDims(out_tvs[j]) < nDims(out_tvs[ref])
           /\ pw.out.status = "params" =>
                  pw.out.n_elems =
                      elemProduct([i \in DOMAIN out_tvs[ref] |-> out_tvs[ref][i].extent[1]],
                                  1, Len(out_tvs[ref]))

\* Four outputs: the second and the third have the most dimensions, and the
\* second is the reference.
C20_Witness ==
    /\ PointwiseParamsReturned
    /\ Len(pw.in.out_tvs) = 4
    /\ nDims(pw.in.out_tvs[1]) < nDims(pw.in.out_tvs[2])
    /\ nDims(pw.in.out_tvs[3]) = nDims(pw.in.out_tvs[2])
    /\ pw.out.reference = 2

\* ---- C17

\* The nodes of kind `kind` the lowered kernel holds.
KernelNodes(kind) == {e \in getAllExprs(lowered_exprs_) : exprs[e].kind = kind}

\* The test has lowered the kernel and its validation has passed.
ReduceAndBroadcastValidated ==
    /\ calc.fn = "FusionReduceAndBroadcast1"
    /\ calc.validated = "passed"

\* C17 as the spec states it: the validated kernel holds one GridReduction,
\* one GridBroadcast and four Allocates, the work and the sync buffer of
\* each, and no BroadcastOp with parallel types outside a GridBroadcast.
C17_OneGridBroadcast ==
    ReduceAndBroadcastValidated =>
        /\ Cardinality(KernelNodes("GridReduction")) = 1
        /\ Cardinality(KernelNodes("GridBroadcast")) = 1
        /\ Cardinality(KernelNodes("Allocate")) = 4
        /\ \A b \in KernelNodes("BroadcastOp") : broadcast_parallel_types(b) = {}

\* C17: the kernel of the test that passes its validation holds exactly one
\* GridReduction and exactly two Allocates, the work buffer and the sync
\* buffer of that GridReduction; it holds no GridBroadcast and no Allocate
\* for the broadcast, which is lowered to one BroadcastOp without parallel
\* types. A kernel that holds a GridBroadcast does not pass the validation.
C17_NoGridBroadcast ==
    /\ ReduceAndBroadcastValidated =>
           /\ Cardinality(KernelNodes("GridReduction")) = 1
           /\ \A g \in KernelNodes("GridReduction") :
                  KernelNodes("Allocate") = Range(exprs[g].bufs) \cup {exprs[g].sync}
           /\ Cardinality(KernelNodes("Allocate")) = 2
           /\ KernelNodes("GridBroadcast") = {}
           /\ Cardinality(KernelNodes("BroadcastOp")) = 1
           /\ \A b \in KernelNodes("BroadcastOp") : broadcast_parallel_types(b) = {}
           /\ Cardinality(KernelNodes("BinaryOp")) = 1
    /\ (/\ calc.fn = "FusionReduceAndBroadcast1"
        /\ calc.validated # "none"
        /\ KernelNodes("GridBroadcast") # {}) => calc.validated = "failed"

\* The sum lowered as an allreduce in a kernel that passes the validation.
C17_Witness ==
    /\ ReduceAndBroadcastValidated
    /\ rdesc.allreduce
    /\ calc.nx > tidx
    /\ Cardinality(KernelNodes("AllocateFusedReduction")) = 1
    /\ Cardinality(KernelNodes("BroadcastOp")) = 1

\* ---- C21

\* getPointwiseHeuristics has returned parameters it has computed.
PointwiseParamsComputed ==
    /\ pw.fn = "getPointwiseHeuristics"
    /\ pw.out.status = "params"

\* The element counts of the dimensions of the reference.
RefElemCounts ==
    LET ref == pw.in.out_tvs[pw.out.reference]
    IN [i \in DOMAIN ref |-> ref[i].extent[1]]

\* The candidate break points.
BreakPoints == 0 .. Len(RefElemCounts) - 1

\* The elements on the right and on the left of the break point bp.
RightCount(bp) == elemProduct(RefElemCounts, bp + 1, Len(RefElemCounts))

LeftCount(bp) == elemProduct(RefElemCounts, 1, bp)

\* The greatest of the mapping counts of the dimensions from .. to.
MaxMapping(from, to) ==
    CHOOSE m \in {pw.in.mapping_count[i] : i \in from .. to} :
        \A i \in from .. to : pw.in.mapping_count[i] <= m

RECURSIVE Power(_, _)
Power(b, e) == IF e = 0 THEN 1 ELSE b * Power(b, e - 1)

\* The estimated transfer of the schedule with the break point bp, and of
\* the 1-D schedule.
TransferCost(bp) ==
    LET n == Len(RefElemCounts)
    IN pw.out.n_elems
           * (IF bp = 0 THEN 1 ELSE Power(MaxMapping(1, bp), bp))
           * Power(MaxMapping(bp + 1, n), n - bp)

TransferCost1D ==
    pw.out.n_elems * Power(MaxMapping(1, Len(RefElemCounts)), Len(RefElemCounts))

\* Both sides of bp have more than one element and the right side has at
\* least max_unroll_factor elements.
Splits(bp) ==
    /\ RightCount(bp) > 1
    /\ LeftCount(bp) > 1
    /\ RightCount(bp) >= pw.out.max_unroll_factor

\* C21 as the spec states it: the break point returned, if not 0, splits
\* the reference and saves at least 10% of the 1-D transfer, and 0 is
\* returned exactly when no candidate does, a candidate that saves exactly
\* 10% being one that does.
C21_AtLeastTenPercent ==
    PointwiseParamsComputed =>
        LET Qualifies(bp) ==
                Splits(bp) /\ TransferCost(bp) * 10 <= TransferCost1D * 9
            bp == pw.out.params.break_point
        IN /\ bp # 0 => Qualifies(bp)
           /\ bp = 0 <=> ~\E c \in BreakPoints : Qualifies(c)

\* The same with a saving of more than 10% required.
C21_MoreThanTenPercent ==
    PointwiseParamsComputed =>
        LET Qualifies(bp) ==
                Splits(bp) /\ TransferCost(bp) * 10 < TransferCost1D * 9
            bp == pw.out.params.break_point
        IN /\ bp # 0 => Qualifies(bp)
           /\ bp = 0 <=> ~\E c \in BreakPoints : Qualifies(c)

\* A candidate that splits the reference and saves exactly 10%.
C21_ExactlyTenPercent ==
    /\ PointwiseParamsComputed
    /\ \E c \in BreakPoints :
           Splits(c) /\ TransferCost(c) * 10 = TransferCost1D * 9
    /\ pw.out.params.break_point = 0

\* ---- C22

\* The candidates the search keeps: they split the reference and save more
\* than 10% of the 1-D transfer.
Qualifying ==
    {bp \in BreakPoints :
        Splits(bp) /\ TransferCost(bp) * 10 < TransferCost1D * 9}

\* C22: when some candidate qualifies, the break point returned is a
\* qualifying one of the least estimated transfer, and the first of those;
\* bdimx, bdimy, gdimx and gdimy, and the launch parameters bound from
\* them, are those computed from the element counts on the two sides of
\* that break point.
C22_FirstOfLeastTransfer ==
    (PointwiseParamsComputed /\ Qualifying # {}) =>
        LET bp == pw.out.params.break_point
            unroll == pw.out.max_unroll_factor
            bdimx == min(ceilDiv(RightCount(bp), unroll), kThreadX)
            bdimy == IF LeftCount(bp) > pw.in.device_multiprocessor_count
                     THEN kThreadX \div bdimx ELSE 1
            remainder_right == ceilDiv(RightCount(bp), bdimy * bdimx * unroll)
        IN /\ bp \in Qualifying
           /\ \A c \in Qualifying :
                  /\ TransferCost(bp) <= TransferCost(c)
                  /\ TransferCost(bp) = TransferCost(c) => bp <= c
           /\ pw.out.right_elem_count = RightCount(bp)
           /\ pw.out.bdimx = bdimx
           /\ pw.out.bdimy = bdimy
           /\ pw.out.gdimx = ceilDiv(LeftCount(bp), bdimy)
           /\ pw.out.gdimy = IF remainder_right > 1 /\ bdimy <= 1
                             THEN remainder_right ELSE 1
           /\ pw.out.params.TIDx = bdimx
           /\ pw.out.params.split_block = (bdimy > 1)
           /\ pw.out.params.split_block => pw.out.params.TIDy = bdimy

\* Two qualifying candidates of the same least transfer, the later of which
\* would give another bdimx: the first of the two is returned.
C22_Witness ==
    /\ PointwiseParamsComputed
    /\ Cardinality(Qualifying) >= 2
    /\ \E c \in Qualifying :
           /\ c > pw.out.params.break_point
           /\ TransferCost(c) = TransferCost(pw.out.params.break_point)
    /\ \E c \in Qualifying : pw.out.bdimx # min(ceilDiv(RightCount(c), pw.out.max_unroll_factor), kThreadX)

\* ---- C23

PointwiseCalled == pw.fn = "getPointwiseHeuristics"

\* No output has an axis that is neither a reduction nor a broadcast axis.
NoDimensions ==
    \A i \in DOMAIN pw.in.out_tvs : \A k \in DOMAIN pw.in.out_tvs[i] :
        pw.in.out_tvs[i][k].reduction \/ pw.in.out_tvs[i][k].broadcast

\* The parameters are those of a default-constructed PointwiseParams: break
\* point 0, no vectorization, no split and no launch dimension bound.
DefaultReturned ==
    /\ pw.out.status = "default"
    /\ pw.out.params.break_point = 0
    /\ ~pw.out.params.vectorize
    /\ pw.out.params.inner_factor = 1
    /\ ~pw.out.params.split_block
    /\ ~pw.out.params.split_grid_y_dim
    /\ pw.out.params.TIDx = 0
    /\ pw.out.params.TIDy = 0

\* C23 as the spec states it: whenever no output has a dimension, a fusion
\* without outputs included, the default parameters are returned.
C23_DefaultWithoutReference ==
    (PointwiseCalled /\ NoDimensions) => DefaultReturned

\* C23: when the fusion has outputs and none of them has a dimension, the
\* default parameters are returned, whether or not the extents of the
\* reference can be inferred; a fusion without outputs raises instead.
C23_DefaultForZeroDimensions ==
    (PointwiseCalled /\ NoDimensions) =>
        IF pw.in.out_tvs = <<>>
        THEN pw.out.status = "throw"
        ELSE DefaultReturned /\ pw.out.reference = 1

\* The default parameters returned for a reference whose only axis is a
\* reduction axis of an extent that cannot be inferred.
C23_Witness ==
    /\ PointwiseCalled
    /\ NoDimensions
    /\ Len(pw.in.out_tvs) = 1
    /\ Len(pw.in.out_tvs[1]) = 1
    /\ pw.in.out_tvs[1][1].extent = NoValue
    /\ pw.out.status = "default"

\* ---- C24

\* The reference has a dimension and one of its extents cannot be inferred.
ExtentNotInferred ==
    /\ pw.in.out_tvs # <<>>
    /\ LET ref == pw.in.out_tvs[largestOut(pw.in.out_tvs, Len(pw.in.out_tvs)).largest_out]
       IN \E i \in DOMAIN ref : ref[i].extent = NoValue

\* C24 as the spec states it: getPointwiseHeuristics raises whenever the
\* fusion has no output or an extent of the root domain of the reference
\* cannot be inferred.
C24_RaisesOnAnyExtent ==
    (PointwiseCalled /\ (pw.in.out_tvs = <<>> \/ ExtentNotInferred)) =>
        pw.out.status = "throw"

\* C24: getPointwiseHeuristics raises when the fusion has no output, and
\* when the reference has a dimension and an extent of its root domain
\* cannot be inferred; for a reference without a dimension the default
\* parameters are returned before any extent is looked at.
C24_RaisesWithDimensions ==
    PointwiseCalled =>
        /\ pw.in.out_tvs = <<>> =>
               pw.out.status = "throw" /\ pw.out.what = "largest_out"
        /\ (ExtentNotInferred /\ ~NoDimensions) =>
               pw.out.status = "throw" /\ pw.out.what = "inferred_val"
        /\ (ExtentNotInferred /\ NoDimensions) => pw.out.status = "default"

\* The extent of an iteration axis of the reference cannot be inferred and
\* the call has raised.
C24_Witness ==
    /\ PointwiseCalled
    /\ ExtentNotInferred
    /\ ~NoDimensions
    /\ pw.out.status = "throw"
    /\ pw.out.what = "inferred_val"

\* ---- C29

\* C29: whenever parameters other than the default ones are returned,
\* max_unroll_factor and inner_factor are at least 1, and vectorize is set
\* only with an inner_factor of at least 2.
C29_FactorsAtLeastOne ==
    PointwiseParamsComputed =>
        /\ pw.out.max_unroll_factor >= 1
        /\ pw.out.params.inner_factor >= 1
        /\ pw.out.params.vectorize => pw.out.params.inner_factor >= 2

\* The same for the references that hold at least one element.
C29_FactorsOfNonEmpty ==
    (PointwiseParamsComputed /\ pw.out.n_elems > 0) =>
        /\ pw.out.max_unroll_factor >= 1
        /\ pw.out.params.inner_factor >= 1
        /\ pw.out.params.vectorize => pw.out.params.inner_factor >= 2

\* A reference without elements: the unroll factor is cut to 0 and the
\* parameters ask for a vectorization of width 0.
C29_ZeroFactor ==
    /\ PointwiseParamsComputed
    /\ pw.out.n_elems = 0
    /\ pw.out.max_unroll_factor = 0
    /\ pw.out.params.vectorize
    /\ pw.out.params.inner_factor = 0

\* ---- C30

\* The block bound by the returned parameters: TIDx by bdimx, and TIDy by
\* bdimy when the block is split, one row otherwise.
BlockX == pw.out.params.TIDx

BlockY == IF pw.out.params.split_block THEN pw.out.params.TIDy ELSE 1

ProceedsAs(kind) ==
    CASE kind = "ReductionOp" ->
             handleReductionOp(Lowering, SourceOp("ReductionOp", 1)).ok
      [] kind = "GroupedReductionOp" ->
             \A n \in GroupSizes :
                 handleGroupedReductionOp(Lowering, SourceOp("GroupedReductionOp", n)).ok
      [] kind = "WelfordOp" ->
             handleWelfordOp(Lowering, SourceOp("WelfordOp", 3)).ok

\* C28: for the same output domain the three kinds of reduction either all
\* abort on the serial-and-grid assertion or all proceed.
C28_SameRejection ==
    ~aborted => \A k1, k2 \in ReductionKinds : ProceedsAs(k1) = ProceedsAs(k2)

\* ReductionOp and GroupedReductionOp, which share the assertion, agree.
C28_ReductionAndGroupedAgree ==
    ~aborted => ProceedsAs("ReductionOp") = ProceedsAs("GroupedReductionOp")

\* A grid reduction with a serial reduction axis of extent one: the
\* ReductionOp of the kernel has been lowered and a WelfordOp would abort.
C28_WelfordAlone ==
    /\ ~aborted
    /\ last.src.kind = "ReductionOp"
    /\ hasGridReduction(rdesc.td)
    /\ HasSerialReduction(rdesc.td)
    /\ ~HasSerialReductionBeyondOne(rdesc.td)
    /\ ProceedsAs("GroupedReductionOp")
    /\ ~ProceedsAs("WelfordOp")

\* ---- C27

\* The bodies of the source kernel that are open now, outermost first.
OpenNow == OpenSourceScopes(Len(trace))

RECURSIVE loopsAmong(_)
\* The re-emitted ForLoops among the open bodies, outermost first; the body
\* of an IfThenElse adds none.
loopsAmong(open) ==
    IF open = <<>> THEN <<>>
    ELSE LET sc == open[Len(open)]
             outer == loopsAmong(SubSeq(open, 1, Len(open) - 1))
         IN IF trace[sc[1]].src.kind = "ForLoop"
            THEN Append(outer, loweredFor(sc)[1])
            ELSE outer

\* The handle call of a ForLoop or IfThenElse has just returned.
ScopeReturned == last.src.kind \in {"ForLoopEnd", "IfThenElseEnd"}

\* The entry of the trace at which the scope that has just returned began.
EnteredAt ==
    LET before == OpenSourceScopes(Len(trace) - 1)
    IN before[Len(before)][1]

\* C27: the scope state is stack-disciplined. After the return from a
\* ForLoop or IfThenElse, active_scope_ and for_loops_ are what they were at
\* its entry; while a body is lowered, for_loops_ holds exactly the
\* re-emitted enclosing ForLoops, outermost first, and active_scope_ is the
\* body of the innermost re-emitted scope; when every source expression has
\* returned, for_loops_ is empty and no scope is active.
C27_ScopeDiscipline ==
    /\ ScopeReturned =>
           /\ active_scope_ = trace[EnteredAt].scope
           /\ for_loops_ = trace[EnteredAt].for_loops
    /\ for_loops_ = loopsAmong(OpenNow)
    /\ \A k \in DOMAIN for_loops_ : exprs[for_loops_[k]].kind = "ForLoop"
    /\ active_scope_ =
           IF OpenNow = <<>> THEN NullScope ELSE loweredFor(OpenNow[Len(OpenNow)])
    /\ OpenNow = <<>> => for_loops_ = <<>> /\ active_scope_ = NullScope

\* The inner of two nested loops has returned: the outer loop alone is left
\* in for_loops_ and its body is the active scope again.
C27_Witness ==
    /\ ScopeReturned
    /\ last.src.kind = "ForLoopEnd"
    /\ Len(OpenNow) = 1
    /\ Len(for_loops_) = 1
    /\ active_scope_ = <<for_loops_[1], "body">>
    /\ Len(exprs[for_loops_[1]].body) >= 1

\* ---- C25

\* groupReductions has been called.
GroupingAsked == calc.fn = "groupReductions" /\ calc.status # "none"

\* The fusion holds a grouped reduction.
HasGroupedReduction == \E e \in calc.exprs : e.kind = "GroupedReductionOp"

\* The reductions asked for are of tensors of different inputs, whose shapes
\* nothing makes equal.
DifferentShapes == \E i, j \in calc.asked : calc.tvs[i].root # calc.tvs[j].root

DifferentHistories ==
    \E i, j \in calc.asked : calc.tvs[i].history # calc.tvs[j].history

OneDependsOnAnother == \E i, j \in calc.asked : i \in calc.tvs[j].producers

\* The call of a test that expects the error: the sums of two inputs, the
\* sums split by 128 and by 64, and the sum of a tensor computed from the
\* other sum.
ExpectsThrow ==
    \/ calc.test = "FusionGroupedReduction4"
    \/ /\ calc.test = "FusionGroupedReduction1"
       /\ calc.tvs[1].history = <<128>>
       /\ calc.tvs[2].history = <<64>>
    \/ calc.test = "FusionGroupedReduction7"

Scheduled == pw.fn = "schedulePointwise" /\ pw.pc = "scheduled"

\* The parallel types of the axes of the reference, outermost first.
ParallelTypes ==
    [i \in DOMAIN pw.reference_tv.domain |-> pw.reference_tv.domain[i].ptype]

\* The axes bound to the parallel type pt.
BoundTo(pt) == {i \in DOMAIN ParallelTypes : ParallelTypes[i] = pt}

\* The loop nest of the path the parameters select: the grid-bound axes,
\* TIDy when the block is split, Unswitch, the unrolled or vectorized axis
\* and TIDx.
LoopNest ==
    LET two_d == pw.params.break_point # 0
        grid ==
            IF ~two_d \/ pw.params.split_block
            THEN <<"BIDx">> ELSE <<"BIDy", "BIDx">>
        tidy == IF two_d /\ pw.params.split_block THEN <<"TIDy">> ELSE <<>>
    IN grid \o tidy
       \o <<"Unswitch", IF pw.params.vectorize THEN "Vectorize" ELSE "Serial", "TIDx">>

\* The axes of the root domain that take no part in the merges.
BroadcastAxes == {i \in DOMAIN pw.root : pw.root[i].kind = "bcast"}

\* The loop nest stands in the domain with `after` axes behind it, the
\* unrolled or vectorized axis has the extent inner_factor, and the axes
\* before and behind it are bound to nothing.
LoopNestBefore(after) ==
    LET types == ParallelTypes
        first == Len(types) - after - Len(LoopNest) + 1
        last_ == Len(types) - after
    IN /\ first >= 1
       /\ SubSeq(types, first, last_) = LoopNest
       /\ pw.reference_tv.domain[last_ - 1].extent = Factor(pw.params.inner_factor)
       /\ \A i \in DOMAIN types : (i < first \/ i > last_) => types[i] = "Serial"

\* What the claim says of the bindings: one axis for each of BIDx, TIDx and
\* Unswitch, Vectorize only with params.vectorize, never TIDy with BIDy.
BoundOnce ==
    /\ \A pt \in {"BIDx", "TIDx", "Unswitch"} : Cardinality(BoundTo(pt)) = 1
    /\ BoundTo("Vectorize") # {} => pw.params.vectorize
    /\ BoundTo("TIDy") # {} => pw.params.split_block
    /\ ~(BoundTo("TIDy") # {} /\ BoundTo("BIDy") # {})

\* The domain of the scheduled reference ends with the loop nest, TIDx
\* innermost.
C26_EndsWithLoopNest == Scheduled => LoopNestBefore(0) /\ BoundOnce

\* C26: on each of the four paths the axes schedulePointwise makes of the
\* reference end with the loop nest of the path, the unrolled or vectorized
\* axis being the one of extent inner_factor, and each of BIDx, TIDx and
\* Unswitch is bound once. The broadcast axes of the root domain, which are
\* left out of the merges and stay behind the loop nest, are not counted
\* among the scheduled axes.
C26_LoopNest ==
    Scheduled =>
        /\ LoopNestBefore(Cardinality(BroadcastAxes))
        /\ BoundOnce
        /\ \A i \in DOMAIN ParallelTypes :
               i > Len(ParallelTypes) - Cardinality(BroadcastAxes) =>
                   pw.reference_tv.domain[i].extent.of \in {"root", "merged"}

\* The 1D vectorized path for a reference with a broadcast axis.
VectorizedWithBroadcast ==
    pw.params.break_point = 0 /\ pw.params.vectorize /\ BroadcastAxes # {}

\* Every path but the 1D vectorized one of a reference with a broadcast axis
\* gives the loop nest, followed by the axes left out of the merges.
C26_LoopNestOfOtherPaths == (Scheduled /\ ~VectorizedWithBroadcast) => C26_LoopNest

\* For a reference without a broadcast axis the domain ends with the loop
\* nest on all four paths.
C26_EndsWithLoopNestOfIterations ==
    (Scheduled /\ BroadcastAxes = {}) => LoopNestBefore(0) /\ BoundOnce

\* On the 1D vectorized path of a reference with a broadcast axis the last
\* axis of the domain, which is none of the split ones, is the Vectorize
\* axis, and the axis of extent inner_factor is left Serial.
C26_VectorizeOfLastAxis ==
    (Scheduled /\ VectorizedWithBroadcast) =>
        LET d == pw.reference_tv.domain
        IN /\ BoundTo("Vectorize") = {Len(d)}
           /\ d[Len(d)].extent.of \in {"root", "merged"}
           /\ ParallelTypes[Len(d) - Cardinality(BroadcastAxes) - 1] = "Serial"

\* The 2D vectorized path with the block split, for a reference of three
\* iteration axes.
C26_Witness ==
    /\ Scheduled
    /\ pw.params.break_point = 1
    /\ pw.params.vectorize
    /\ pw.params.split_block
    /\ BroadcastAxes = {}
    /\ Len(pw.root) = 3
    /\ ParallelTypes = <<"Serial", "BIDx", "TIDy", "Unswitch", "Vectorize", "TIDx">>

====
